---- MODULE Spec2Model ----
(***************************************************************************)
(* Model of the Notion -> Figma variable reconciliation of                 *)
(* src/src/plugin/handlers/syncHandler.ts (handleImportFromNotion) and     *)
(* src/src/plugin/utils/variableUtils.ts (updateVariable,                  *)
(* findVariableByName, createVariableCollection, getExistingVariables).    *)
(*                                                                         *)
(* A name is the sequence of its '/'-separated segments.  The host store   *)
(* (figma.variables) is a sequence of variable objects; an object's id is  *)
(* its index.  A removed object stays in the sequence with removed = TRUE, *)
(* as the JavaScript object stays reachable from allFigmaVariables.        *)
(***************************************************************************)
EXTENDS Integers, Sequences, FiniteSets, TLC

\* ------------------------------------------------------------------ bounds
MaxTokens == 2      \* longest input batch
MaxInitVars == 1    \* variables in the host store before the first run
MaxRuns == 2        \* consecutive imports with the same input
MaxThrows == 1      \* host exceptions raised in one behaviour

\* ---------------------------------------------------------- input universe
NameA == <<"a">>
NameB == <<"b">>
NameGB == <<"g", "b">>
EntryNames == {NameA, NameGB}
TokenGroups == {<<>>}
TokenLeaves == {"a", "b"}
NameXB == <<"x", "b">>
RefTargets == {NameB, NameXB}
Scalars == {"1"}
TokenTypes == {"STRING", ""}
Descriptions == {""}

PlainValue(s) == [shape |-> "plain", ref |-> <<>>, s |-> s]
AliasValue(n) == [shape |-> "alias", ref |-> n, s |-> ""]
AliasFallbackValue(n, s) == [shape |-> "aliasfb", ref |-> n, s |-> s]

TokenValues ==
  {PlainValue(s) : s \in Scalars}
    \cup {AliasFallbackValue(n, s) : n \in RefTargets, s \in Scalars}

\* the full name syncHandler and updateVariable compute for a token
FullName(tok) ==
  IF tok.group # <<>> THEN tok.group \o <<tok.name>> ELSE <<tok.name>>

\* a token without a declared type ("") carries a plain scalar, the alias
\* tokens of the universe declare STRING, and no token names itself
Tokens ==
  {t \in [group : TokenGroups, name : TokenLeaves, type : TokenTypes,
          value : TokenValues, description : Descriptions] :
     /\ t.type = "" => t.value.shape = "plain"
     /\ t.value.ref # FullName(t)}

RECURSIVE SeqsUpTo(_, _)
SeqsUpTo(S, n) ==
  IF n = 0 THEN {<<>>}
  ELSE LET shorter == SeqsUpTo(S, n - 1)
       IN shorter \cup {Append(q, x) : q \in {p \in shorter : Len(p) = n - 1}, x \in S}

Batches == SeqsUpTo(Tokens, MaxTokens)

\* the collection name the settings ask for, and the names in the host
CollectionName == "DT"
InitCollections == {<<"Other">>, <<"Other", "DT">>}

\* String.prototype.trim / toLowerCase on the collection names in use
Trim(s) == s
ToLowerCase(s) == IF s = "DT" THEN "dt" ELSE IF s = "Other" THEN "other" ELSE s

\* --------------------------------------------------------------- helpers
Last(q) == q[Len(q)]
Front(q) == SubSeq(q, 1, Len(q) - 1)
Range(q) == {q[k] : k \in 1..Len(q)}

\* index of the first element of q satisfying P, 0 when there is none
\* (Array.prototype.find)
FirstIndex(q, P(_)) ==
  IF \E k \in 1..Len(q) : P(q[k])
  THEN CHOOSE k \in 1..Len(q) : P(q[k]) /\ \A m \in 1..(k - 1) : ~P(q[m])
  ELSE 0

Find(q, P(_)) == LET k == FirstIndex(q, P) IN IF k = 0 THEN 0 ELSE q[k]

\* s.endsWith("/" + t) on '/'-joined names
EndsWithSlash(s, t) ==
  /\ Len(s) > Len(t)
  /\ SubSeq(s, Len(s) - Len(t) + 1, Len(s)) = t

\* ----------------------------------------------------------- variableUtils
ConvertToFigmaVariableType(type) ==
  CASE type = "COLOR" -> "COLOR"
    [] type = "NUMBER" -> "FLOAT"
    [] type = "STRING" -> "STRING"
    [] type = "BOOLEAN" -> "BOOLEAN"
    [] OTHER -> "STRING"

IsNumericString(s) == s \in {"0", "1"}

\* detectVariableType on the values of the universe: a numeric string is a
\* NUMBER, alias text "{...}" and other text is a STRING
DetectVariableType(value) ==
  IF value.shape = "plain" /\ IsNumericString(value.s) THEN "NUMBER" ELSE "STRING"

\* parseFloat(String(value)): NaN for text that does not start with a number
ParseFloat(value) ==
  IF value.shape = "plain" /\ IsNumericString(value.s) THEN value.s ELSE "NaN"

\* parseVariableValue: the host value written for a token value of a type
ParseVariableValue(type, value) ==
  CASE type = "NUMBER" -> [k |-> "num", v |-> PlainValue(ParseFloat(value)), id |-> 0]
    [] OTHER -> [k |-> "str", v |-> value, id |-> 0]

\* parseFallbackValue: NaN becomes 0 for NUMBER
ParseFallbackValue(fb, type) ==
  CASE type = "NUMBER" ->
         [k |-> "num",
          v |-> PlainValue(IF IsNumericString(fb) THEN fb ELSE "0"), id |-> 0]
    [] OTHER -> [k |-> "str", v |-> PlainValue(fb), id |-> 0]

VariableAlias(id) == [k |-> "alias", v |-> PlainValue(""), id |-> id]
DefaultValue == [k |-> "default", v |-> PlainValue(""), id |-> 0]

\* getExistingVariables + existingVariableMap key: parseVariableName splits
\* the stored name into path and leaf, the key joins them again
ExistingKey(name) ==
  LET leaf == Last(name)
      path == Front(name)
  IN IF path # <<>> THEN path \o <<leaf>> ELSE <<leaf>>

\* findVariableByName over the working list lst of ids into store st
FindVariableByName(name, lst, st) ==
  LET exact == Find(lst, LAMBDA id : st[id].name = name)
      grouped == Find(lst, LAMBDA id : EndsWithSlash(st[id].name, name))
      simple == IF Len(name) > 1
                THEN Find(lst, LAMBDA id : Last(st[id].name) = Last(name))
                ELSE 0
      normalized == Find(lst, LAMBDA id :
                      \/ st[id].name = name
                      \/ EndsWithSlash(st[id].name, name)
                      \/ EndsWithSlash(name, st[id].name))
  IN IF exact # 0 THEN exact
     ELSE IF grouped # 0 THEN grouped
     ELSE IF simple # 0 THEN simple
     ELSE normalized

NewVariable(name, coll, figmaType) ==
  [name |-> name, coll |-> coll, type |-> figmaType, val |-> DefaultValue,
   removed |-> FALSE, description |-> ""]

\* createVariableCollection that creates a missing collection whatever
\* createNew says
CreateVariableCollectionAlways(colls, name, createNew) ==
  LET existing == FirstIndex(colls, LAMBDA c : c = name)
  IN IF ~createNew /\ existing # 0
     THEN [colls |-> colls, id |-> existing, threw |-> FALSE]
     ELSE [colls |-> Append(colls, name), id |-> Len(colls) + 1, threw |-> FALSE]

\* createVariableCollection: result [colls, id, threw]
CreateVariableCollection(colls, name, createNew) ==
  LET exact == FirstIndex(colls, LAMBDA c : c = name)
      trimmed == FirstIndex(colls, LAMBDA c : Trim(c) = Trim(name))
      lower == FirstIndex(colls, LAMBDA c : ToLowerCase(c) = ToLowerCase(name))
      first == IF exact # 0 THEN exact ELSE IF trimmed # 0 THEN trimmed ELSE lower
      matchingCollections ==
        {k \in 1..Len(colls) :
           \/ colls[k] = name
           \/ Trim(colls[k]) = Trim(name)
           \/ ToLowerCase(colls[k]) = ToLowerCase(name)}
      existing ==
        IF Cardinality(matchingCollections) > 1
        THEN CHOOSE k \in matchingCollections : \A m \in matchingCollections : k <= m
        ELSE first
  IN IF ~createNew /\ existing # 0
     THEN [colls |-> colls, id |-> existing, threw |-> FALSE]
     ELSE IF ~createNew
     THEN [colls |-> colls, id |-> 0, threw |-> TRUE]
     ELSE [colls |-> Append(colls, name), id |-> Len(colls) + 1, threw |-> FALSE]

\* does updateVariable call figma.variables.createVariable for this token
CallsCreateVariable(st, c, tok, lst) ==
  LET matching == SelectSeq(lst, LAMBDA id :
                    st[id].coll = c /\ st[id].name = FullName(tok))
  IN \/ matching = <<>>
     \/ st[matching[1]].type # ConvertToFigmaVariableType(tok.type)

\* updateVariable(collection, variable, existingVariables) against host
\* store st.  thr names the host call that throws in this invocation:
\* "none", "create" (createVariable) or "set" (setValueForMode).
\* Result: [st, ret, threw], ret the id of the returned variable.
UpdateVariable(st, c, tok, lst, thr) ==
  LET figmaType == ConvertToFigmaVariableType(tok.type)
      variableName == FullName(tok)
      matchingVariables ==
        SelectSeq(lst, LAMBDA id : st[id].coll = c /\ st[id].name = variableName)
      found == matchingVariables # <<>>
      st1 == IF found THEN st
             ELSE Append(st, NewVariable(variableName, c, figmaType))
      fv1 == IF found THEN matchingVariables[1] ELSE Len(st) + 1
      mismatch == st1[fv1].type # figmaType
      removedOld == [st1 EXCEPT ![fv1].removed = TRUE]
      st2 == IF mismatch
             THEN Append(removedOld, NewVariable(variableName, c, figmaType))
             ELSE st1
      fv2 == IF mismatch THEN Len(st1) + 1 ELSE fv1
      raw == tok.value
      isAliasWithFallback == raw.shape = "aliasfb"
      isVariableReference == raw.shape = "alias"
      referenceVariable == FindVariableByName(raw.ref, lst, st2)
      valueToSet ==
        IF isVariableReference \/ isAliasWithFallback
        THEN IF referenceVariable # 0 THEN VariableAlias(referenceVariable)
             ELSE IF raw.s # "" THEN ParseFallbackValue(raw.s, tok.type)
             ELSE ParseVariableValue(tok.type, raw)
        ELSE ParseVariableValue(tok.type, raw)
      st3 == [st2 EXCEPT ![fv2].val = valueToSet]
      st4 == IF tok.description # ""
             THEN [st3 EXCEPT ![fv2].description = tok.description]
             ELSE st3
  IN CASE thr = "create" /\ ~found -> [st |-> st, ret |-> 0, threw |-> TRUE]
       [] thr = "create" /\ found /\ mismatch ->
            [st |-> removedOld, ret |-> 0, threw |-> TRUE]
       [] thr = "set" -> [st |-> st2, ret |-> 0, threw |-> TRUE]
       [] OTHER -> [st |-> st4, ret |-> fv2, threw |-> FALSE]

\* ------------------------------------------------------------------ state
VARIABLES
  figmaVars,           \* host store: sequence of variable objects
  collections,         \* host store: names of the variable collections
  settings,            \* the ImportSettings message of the run
  pc,                  \* position of handleImportFromNotion
  run,                 \* number of the current invocation
  variables,           \* settings.variables as the run mutates it (type)
  collection,          \* id of the collection obtained
  existingVariableMap, \* keys of existingVariableMap
  allFigmaVariables,   \* working list of variable objects (ids)
  i,                   \* loop index of the current pass
  importedCount, skippedCount, errorCount, deletedCount,
  importErrors,        \* names pushed to importErrors
  varsToDelete,        \* pass 3 work list
  posted,              \* types of the messages posted by this run
  \* history variables, read by no action
  thrown,              \* host exceptions raised so far
  threwPass1,          \* indices of the tokens whose pass-1 write threw
  threwPass2,          \* indices of the tokens whose pass-2 write threw
  startVars,           \* host store when the current run started
  startColls,          \* collections when the current run started
  removedLog,          \* ids removed by pass 3, in order
  pass1Log,            \* indices handled by pass 1, in order
  afterPass1,          \* host store when pass 1 ended
  listings             \* position of every getLocalVariablesAsync call of the run

\* state of transformNotionResponse (src/ui/services/notionTransform.ts)
VARIABLES
  raw,                 \* the records handed to transformNotionResponse
  tpc,                 \* position of the transform: idle, loop, returned, threw
  ti,                  \* index of the record the main loop handles next
  pageCache,           \* pageCache: record id -> fetched page
  pageIdToVarName,     \* pageIdToVarName: record id -> canonical path
  outVariables,        \* the local array `variables` of the transform
  fetchLog             \* record ids passed to fetchNotionPage, in call order

transformVars ==
  <<raw, tpc, ti, pageCache, pageIdToVarName, outVariables, fetchLog>>

\* the transform is not running
TransformIdle ==
  /\ raw = <<>>
  /\ tpc = "idle"
  /\ ti = 0
  /\ pageCache = <<>>
  /\ pageIdToVarName = <<>>
  /\ outVariables = <<>>
  /\ fetchLog = <<>>

\* one call of an exported pure function: its name, argument and result
VARIABLES fn, input, result

callVars == <<fn, input, result>>

\* no function was called
CallIdle == fn = "" /\ input = <<>> /\ result = <<>>

VARIABLES
  proxyUrl,            \* the proxyUrl argument of fetchNotionData
  fpc,                 \* position of fetchNotionData: idle, loop, returned, threw
  allResults,          \* allResults
  hasMore,             \* hasMore
  startCursor,         \* startCursor
  pageCount,           \* pageCount
  requests,            \* query.start_cursor of every request sent, in order
  responses,           \* every response received, in order
  fetched              \* the value fetchNotionData resolved to

fetchVars ==
  <<proxyUrl, fpc, allResults, hasMore, startCursor, pageCount, requests,
    responses, fetched>>

\* fetchNotionData is not running
FetchIdle ==
  /\ proxyUrl = "" /\ fpc = "off" /\ allResults = <<>> /\ hasMore = FALSE
  /\ startCursor = "undefined" /\ pageCount = 0 /\ requests = <<>> /\ responses = <<>>
  /\ fetched = <<>>

\* state of the import form (src/ui/components/ImportTab.tsx) and of the
\* controller's message handler (code.ts, figma.ui.onmessage)
VARIABLES
  isLoading,           \* isLoading: the submit button is disabled while TRUE
  importTimeoutRef,    \* importTimeoutRef.current, 0 for null
  timers,              \* ids of the window.setTimeout timers still pending
  timerCount,          \* timers created so far
  submits,             \* position of every handleSubmit invocation
  toController,        \* messages of parent.postMessage not yet handled
  toUi,                \* messages of figma.ui.postMessage not yet handled
  importRuns           \* every handleImportFromNotion call of the controller

uiVars ==
  <<isLoading, importTimeoutRef, timers, timerCount, submits, toController,
    toUi, importRuns>>

\* the form was not submitted
UiIdle ==
  /\ isLoading = FALSE /\ importTimeoutRef = 0 /\ timers = {}
  /\ timerCount = 0 /\ submits = <<>> /\ toController = <<>> /\ toUi = <<>>
  /\ importRuns = <<>>

notHandler == <<transformVars, callVars, fetchVars, uiVars>>

vars ==
  <<figmaVars, collections, settings, pc, run, variables, collection,
    existingVariableMap, allFigmaVariables, i, importedCount, skippedCount,
    errorCount, deletedCount, importErrors, varsToDelete, posted, thrown,
    threwPass1, threwPass2, startVars, startColls, removedLog, pass1Log,
    afterPass1, listings>>

\* -------------------------------------------------------------------- Init
InitValue(figmaType) ==
  IF figmaType = "FLOAT" THEN [k |-> "num", v |-> PlainValue("0"), id |-> 0]
  ELSE [k |-> "str", v |-> PlainValue("0"), id |-> 0]

InitTypes == {"STRING"}

InitEntries(ncolls) ==
  {[name |-> n, coll |-> c, type |-> t, val |-> InitValue(t),
    removed |-> FALSE, description |-> ""] :
     n \in EntryNames, c \in 1..ncolls, t \in InitTypes}

\* a host store holds at most one variable of a name per collection
UniqueNames(st) ==
  \A x, y \in 1..Len(st) :
    (st[x].name = st[y].name /\ st[x].coll = st[y].coll) => x = y

SettingsSet ==
  [collectionName : {CollectionName},
   createNewCollection : BOOLEAN,
   overwriteExisting : BOOLEAN,
   deleteRemovedVariables : BOOLEAN,
   variables : Batches]

Init ==
  /\ collections \in InitCollections
  /\ figmaVars \in {st \in SeqsUpTo(InitEntries(Len(collections)), MaxInitVars) :
                       UniqueNames(st)}
  \* a new collection is asked for when none has the name
  /\ settings \in {x \in SettingsSet :
                     x.createNewCollection =>
                       CreateVariableCollection(collections, x.collectionName, FALSE).threw}
  /\ pc = "idle"
  /\ run = 1
  /\ variables = <<>>
  /\ collection = 0
  /\ existingVariableMap = {}
  /\ allFigmaVariables = <<>>
  /\ i = 0
  /\ importedCount = 0
  /\ skippedCount = 0
  /\ errorCount = 0
  /\ deletedCount = 0
  /\ importErrors = <<>>
  /\ varsToDelete = <<>>
  /\ posted = <<>>
  /\ thrown = 0
  /\ threwPass1 = {}
  /\ threwPass2 = {}
  /\ startVars = figmaVars
  /\ startColls = collections
  /\ removedLog = <<>>
  /\ pass1Log = <<>>
  /\ afterPass1 = <<>>
  /\ listings = <<>>
  /\ TransformIdle
  /\ CallIdle
  /\ FetchIdle
  /\ UiIdle

\* figma.variables.getLocalVariablesAsync(): the live variables, in order
GetLocalVariables(st) == SelectSeq([k \in 1..Len(st) |-> k], LAMBDA id : ~st[id].removed)

\* keys of existingVariableMap, from getExistingVariables(collection.id)
ExistingKeys(st, c) ==
  {ExistingKey(st[id].name) : id \in {k \in 1..Len(st) : ~st[k].removed /\ st[k].coll = c}}

HistoryUnchanged ==
  UNCHANGED <<thrown, threwPass1, threwPass2, startVars, startColls,
              removedLog, pass1Log, afterPass1>>

\* ----------------------------------------------------------------- actions
\* a catch block that posts nothing
CatchSilent(msgs) == msgs

\* the catch of handleImportFromNotion, lines 263-282: posts ERROR after the
\* messages msgs the run has posted
CatchPosts(msgs) == Append(msgs, "ERROR")

\* handleImportFromNotion, lines 18-78: preconditions, collection, listing
StartImport ==
  /\ UNCHANGED notHandler
  /\ pc = "idle"
  /\ LET r == CreateVariableCollection(collections, settings.collectionName,
                                        settings.createNewCollection)
     IN IF settings.variables = <<>>
        THEN /\ posted' = CatchPosts(<<>>)
             /\ pc' = "done"
             /\ UNCHANGED <<collections, variables, collection,
                            existingVariableMap, allFigmaVariables, i,
                            listings>>
        ELSE IF r.threw
        THEN /\ posted' = CatchPosts(<<"LOADING">>)
             /\ pc' = "done"
             /\ UNCHANGED <<collections, variables, collection,
                            existingVariableMap, allFigmaVariables, i,
                            listings>>
        ELSE /\ posted' = <<"LOADING">>
             /\ collections' = r.colls
             /\ collection' = r.id
             /\ variables' = settings.variables
             /\ existingVariableMap' = ExistingKeys(figmaVars, r.id)
             /\ allFigmaVariables' = GetLocalVariables(figmaVars)
             /\ listings' = <<pc, pc>>
             /\ i' = 1
             /\ pc' = "pass1"
  /\ UNCHANGED <<figmaVars, settings, run, importedCount, skippedCount,
                 errorCount, deletedCount, importErrors, varsToDelete>>
  /\ HistoryUnchanged

\* the host calls of one updateVariable that may throw
ThrowChoices(st, c, tok, lst) ==
  {"none"} \cup
  (IF thrown < MaxThrows
   THEN {"set"} \cup (IF CallsCreateVariable(st, c, tok, lst) THEN {"create"} ELSE {})
   ELSE {})

\* PROGRESS is posted every 10 items (index k is 1-based here)
Progress(k) == IF (k - 1) % 10 = 0 THEN <<"PROGRESS">> ELSE <<>>

\* pass-3 work list that keeps the names missing from the batch and
\* takes the others
VarsToDeleteMatched(st, c, lst, toks) ==
  LET notionVariableNames == {FullName(toks[k]) : k \in 1..Len(toks)}
  IN SelectSeq(lst, LAMBDA id :
       st[id].coll = c /\ st[id].name \in notionVariableNames)

\* pass-3 work list without the collection filter
VarsToDeleteAnyCollection(st, c, lst, toks) ==
  LET notionVariableNames == {FullName(toks[k]) : k \in 1..Len(toks)}
  IN SelectSeq(lst, LAMBDA id : st[id].name \notin notionVariableNames)

\* the work list of pass 3, lines 186-203
VarsToDelete(st, c, lst, toks) ==
  LET notionVariableNames == {FullName(toks[k]) : k \in 1..Len(toks)}
  IN SelectSeq(lst, LAMBDA id :
       st[id].coll = c /\ st[id].name \notin notionVariableNames)

\* Tally with a caught error that is counted but not listed
TallyErrorNotListed(t, outcome, name) ==
  CASE outcome = "skipped" -> [t EXCEPT !.skipped = @ + 1]
    [] outcome = "imported" -> [t EXCEPT !.imported = @ + 1]
    [] OTHER -> [t EXCEPT !.errors = @ + 1]

\* Tally with a skip that falls through to the imported counter as well
TallySkipAlsoImported(t, outcome, name) ==
  CASE outcome = "skipped" -> [t EXCEPT !.skipped = @ + 1, !.imported = @ + 1]
    [] outcome = "imported" -> [t EXCEPT !.imported = @ + 1]
    [] OTHER -> [t EXCEPT !.errors = @ + 1, !.importErrors = Append(@, name)]

\* the counters of pass 1: skippedCount++ (line 115), importedCount++
\* (lines 143, 161), errorCount++ and importErrors.push (lines 165-166)
Tally(t, outcome, name) ==
  CASE outcome = "skipped" -> [t EXCEPT !.skipped = @ + 1]
    [] outcome = "imported" -> [t EXCEPT !.imported = @ + 1]
    [] OTHER -> [t EXCEPT !.errors = @ + 1, !.importErrors = Append(@, name)]

\* lines 107-117: the token is skipped
SkipExisting(fullName, keys, overwriteExisting) ==
  fullName \in keys /\ ~overwriteExisting

\* line 173: pass 2 re-writes the tokens whose value starts with "{"
IsAlias(value) == value.shape \in {"alias", "aliasfb"}

\* lines 142 and 157-159: the returned variable joins the working list
PushNewVar(lst, ret, useFallback) ==
  IF useFallback \/ ret \notin Range(lst) THEN Append(lst, ret) ELSE lst

\* a call of updateVariable or findVariableByName without the list argument
ListOmitted(lst) == [passed |-> FALSE, list |-> <<>>]

\* lines 135, 140, 155 and 175: the handler passes allFigmaVariables to
\* updateVariable and findVariableByName
ListPassed(lst) == [passed |-> TRUE, list |-> lst]

\* existingVariables ?? await figma.variables.getLocalVariablesAsync()
\* (updateVariable) and existingVariables || ... (findVariableByName); an
\* array, empty or not, is neither nullish nor falsy
AllVariables(existingVariables, st) ==
  IF existingVariables.passed THEN existingVariables.list
  ELSE GetLocalVariables(st)

\* the listings after a call at position p with argument existingVariables
Listed(log, existingVariables, p) ==
  IF existingVariables.passed THEN log ELSE Append(log, p)

\* one iteration of the pass-1 loop, lines 81-168
Pass1 ==
  /\ UNCHANGED notHandler
  /\ pc = "pass1"
  /\ LET tok0 == variables[i]
         fullName == FullName(tok0)
         skip == SkipExisting(fullName, existingVariableMap,
                              settings.overwriteExisting)
         tok == IF tok0.type = ""
                THEN [tok0 EXCEPT !.type = DetectVariableType(tok0.value)]
                ELSE tok0
         isAliasWithFallback == tok.value.shape = "aliasfb"
         ev == ListPassed(allFigmaVariables)
         refVar == FindVariableByName(tok.value.ref,
                                      AllVariables(ev, figmaVars), figmaVars)
         useFallback == isAliasWithFallback /\ refVar = 0 /\ tok.value.s # ""
         arg == IF useFallback
                THEN [tok EXCEPT !.value = PlainValue(tok.value.s)]
                ELSE tok
         last == i = Len(variables)
         t == [imported |-> importedCount, skipped |-> skippedCount,
               errors |-> errorCount, importErrors |-> importErrors]
     IN /\ posted' = posted \o Progress(i)
        /\ pass1Log' = Append(pass1Log, i)
        /\ i' = IF last THEN 1 ELSE i + 1
        /\ pc' = IF last THEN "pass2" ELSE "pass1"
        /\ listings' =
             IF skip THEN listings
             ELSE Listed(IF isAliasWithFallback THEN Listed(listings, ev, pc)
                         ELSE listings, ev, pc)
        /\ \E thr \in IF skip THEN {"none"}
                       ELSE ThrowChoices(figmaVars, collection, arg,
                                         AllVariables(ev, figmaVars)) :
             LET r == UpdateVariable(figmaVars, collection, arg,
                                     AllVariables(ev, figmaVars), thr)
                 outcome == IF skip THEN "skipped"
                            ELSE IF r.threw THEN "error" ELSE "imported"
                 t2 == Tally(t, outcome, tok0.name)
             IN /\ figmaVars' = IF skip THEN figmaVars ELSE r.st
                /\ variables' = IF skip THEN variables
                                ELSE [variables EXCEPT ![i] = tok]
                /\ allFigmaVariables' =
                     IF outcome = "imported"
                     THEN PushNewVar(allFigmaVariables, r.ret, useFallback)
                     ELSE allFigmaVariables
                /\ importedCount' = t2.imported
                /\ skippedCount' = t2.skipped
                /\ errorCount' = t2.errors
                /\ importErrors' = t2.importErrors
                /\ thrown' = IF outcome = "error" THEN thrown + 1 ELSE thrown
                /\ threwPass1' = IF outcome = "error" THEN threwPass1 \cup {i}
                                 ELSE threwPass1
        /\ afterPass1' = IF last THEN figmaVars' ELSE afterPass1
  /\ UNCHANGED <<collections, settings, run, collection, existingVariableMap,
                 deletedCount, varsToDelete, threwPass2, startVars, startColls,
                 removedLog>>

\* pass-2 catch that lists the failure like the pass-1 catch does
Pass2CatchListed(errs, name, threw) ==
  IF threw THEN Append(errs, name) ELSE errs

\* lines 176-178: the pass-2 catch only warns, importErrors is not touched
Pass2Catch(errs, name, threw) == errs

\* one iteration of the pass-2 loop, lines 171-179; leaving the loop
\* computes the pass-3 work list, lines 182-203
Pass2 ==
  /\ UNCHANGED notHandler
  /\ pc = "pass2"
  /\ LET tok == variables[i]
         isAlias == IsAlias(tok.value)
         last == i = Len(variables)
     IN /\ i' = IF last THEN 1 ELSE i + 1
        /\ pc' = IF last THEN "pass3" ELSE "pass2"
        /\ IF ~isAlias
           THEN UNCHANGED <<figmaVars, thrown, threwPass2, importErrors,
                            listings>>
           ELSE \E ev \in {ListPassed(allFigmaVariables)} :
                \E thr \in ThrowChoices(figmaVars, collection, tok,
                                        AllVariables(ev, figmaVars)) :
                  LET r == UpdateVariable(figmaVars, collection, tok,
                                          AllVariables(ev, figmaVars), thr)
                  IN /\ figmaVars' = r.st
                     /\ listings' = Listed(listings, ev, pc)
                     /\ importErrors' = Pass2Catch(importErrors, tok.name, r.threw)
                     /\ thrown' = IF r.threw THEN thrown + 1 ELSE thrown
                     /\ threwPass2' = IF r.threw THEN threwPass2 \cup {i}
                                      ELSE threwPass2
        /\ varsToDelete' =
             IF last /\ settings.deleteRemovedVariables
             THEN VarsToDelete(figmaVars', collection, allFigmaVariables, variables)
             ELSE <<>>
  /\ UNCHANGED <<collections, settings, run, variables, collection,
                 existingVariableMap, allFigmaVariables, importedCount,
                 skippedCount, errorCount, deletedCount, posted,
                 threwPass1, startVars, startColls, removedLog, pass1Log,
                 afterPass1>>

\* one iteration of the pass-3 loop, lines 205-232
Pass3 ==
  /\ UNCHANGED notHandler
  /\ pc = "pass3"
  /\ i <= Len(varsToDelete)
  /\ LET figmaVar == varsToDelete[i]
     IN /\ posted' = posted \o Progress(i)
        /\ figmaVars' = [figmaVars EXCEPT ![figmaVar].removed = TRUE]
        /\ deletedCount' = deletedCount + 1
        /\ removedLog' = Append(removedLog, figmaVar)
        /\ i' = i + 1
  /\ UNCHANGED <<collections, settings, pc, run, variables, collection,
                 existingVariableMap, allFigmaVariables, importedCount,
                 skippedCount, errorCount, importErrors, varsToDelete, thrown,
                 threwPass1, threwPass2, startVars, startColls, pass1Log,
                 afterPass1, listings>>

\* the summary, lines 243-261
Summary ==
  /\ UNCHANGED notHandler
  /\ pc = "pass3"
  /\ i > Len(varsToDelete)
  /\ posted' = Append(posted, "SUCCESS")
  /\ pc' = "done"
  /\ UNCHANGED <<figmaVars, collections, settings, run, variables, collection,
                 existingVariableMap, allFigmaVariables, i, importedCount,
                 skippedCount, errorCount, deletedCount, importErrors,
                 varsToDelete, listings>>
  /\ HistoryUnchanged

\* the UI sends IMPORT_FROM_NOTION again with the same settings, after a
\* run in which no host call threw
ImportAgain ==
  /\ UNCHANGED notHandler
  /\ pc = "done"
  /\ run < MaxRuns
  /\ thrown = 0
  /\ run' = run + 1
  /\ pc' = "idle"
  /\ variables' = <<>>
  /\ collection' = 0
  /\ existingVariableMap' = {}
  /\ allFigmaVariables' = <<>>
  /\ i' = 0
  /\ importedCount' = 0
  /\ skippedCount' = 0
  /\ errorCount' = 0
  /\ deletedCount' = 0
  /\ importErrors' = <<>>
  /\ varsToDelete' = <<>>
  /\ posted' = <<>>
  /\ threwPass1' = {}
  /\ threwPass2' = {}
  /\ startVars' = figmaVars
  /\ startColls' = collections
  /\ removedLog' = <<>>
  /\ pass1Log' = <<>>
  /\ afterPass1' = <<>>
  /\ listings' = <<>>
  /\ UNCHANGED <<figmaVars, collections, settings, thrown>>

Next == StartImport \/ Pass1 \/ Pass2 \/ Pass3 \/ Summary \/ ImportAgain

Spec == Init /\ [][Next]_vars

\* ------------------------------------------------------------- properties
NumTokens == Len(settings.variables)
BatchNames == {FullName(settings.variables[k]) : k \in 1..NumTokens}
SummaryPosted == pc = "done" /\ posted # <<>> /\ Last(posted) = "SUCCESS"
Pass1Over == pc \in {"pass2", "pass3"} \/ SummaryPosted

\* ids of the entries of the target collection when the run started
StartTargetEntries ==
  {id \in 1..Len(startVars) :
     ~startVars[id].removed /\ startVars[id].coll = collection}

\* indices of the tokens whose full name names an entry of the target
\* collection at the start of the run
MatchedTokens ==
  {k \in 1..NumTokens :
     \E id \in StartTargetEntries :
       startVars[id].name = FullName(settings.variables[k])}

SkippedTokens == IF settings.overwriteExisting THEN {} ELSE MatchedTokens

\* the names of the tokens of F, in input order
NamesOf(F) ==
  LET idx == SelectSeq([k \in 1..NumTokens |-> k], LAMBDA k : k \in F)
  IN [m \in 1..Len(idx) |-> settings.variables[idx[m]].name]

\* C6: partial failure.  Once pass 1 is over, every token was handled in
\* input order whatever subset F of the writes threw; errors = |F|,
\* importErrors names exactly the tokens of F, imported + skipped = n - |F|,
\* and every token outside F that was not skipped has its variable.
C6_PartialFailure ==
  Pass1Over =>
    /\ pass1Log = [k \in 1..NumTokens |-> k]
    /\ errorCount = Cardinality(threwPass1)
    /\ importErrors = NamesOf(threwPass1)
    /\ importedCount + skippedCount = NumTokens - Cardinality(threwPass1)
    /\ \A k \in (1..NumTokens) \ (threwPass1 \cup SkippedTokens) :
         \E id \in 1..Len(afterPass1) :
           /\ afterPass1[id].name = FullName(settings.variables[k])
           /\ afterPass1[id].coll = collection

\* a token was written after the write of the token before it threw
C6_Witness ==
  SummaryPosted /\ threwPass1 = {1} /\ NumTokens = 2 /\ importedCount = 1

\* C7: every token is accounted for exactly once.  From the end of pass 1
\* to the summary imported + skipped + errors = total, importErrors has
\* errors items, and each counter has the value pass 1 gave it (skipped =
\* the tokens matched with overwrite off, errors = the writes that threw).
C7_EveryTokenAccounted ==
  Pass1Over =>
    /\ importedCount + skippedCount + errorCount = NumTokens
    /\ Len(importErrors) = errorCount
    /\ skippedCount = Cardinality(SkippedTokens)
    /\ errorCount = Cardinality(threwPass1)

\* a summary with one skipped and one failed token
C7_Witness ==
  SummaryPosted /\ skippedCount = 1 /\ errorCount = 1 /\ importedCount = 0

\* entries of the target collection at the start of the run whose full
\* name is absent from the batch
UnmatchedEntries ==
  {id \in StartTargetEntries : startVars[id].name \notin BatchNames}

Occurrences(q, x) == Cardinality({k \in 1..Len(q) : q[k] = x})

C5_PruneFrame ==
  /\ \A id \in Range(removedLog) :
       /\ figmaVars[id].coll = collection
       /\ figmaVars[id].name \notin BatchNames
  /\ collection # 0 =>
       \A id \in 1..Len(startVars) :
         startVars[id].coll # collection =>
           figmaVars[id].removed = startVars[id].removed

\* pass 3 removed an entry and left the entry that matches a token
C5_Witness ==
  /\ SummaryPosted
  /\ removedLog # <<>>
  /\ \E id \in 1..Len(figmaVars) :
       /\ ~figmaVars[id].removed
       /\ figmaVars[id].coll = collection
       /\ figmaVars[id].name \in BatchNames

\* no collection of the host matches the name asked for
NoCollectionMatches ==
  \A k \in 1..Len(startColls) :
    /\ startColls[k] # settings.collectionName
    /\ Trim(startColls[k]) # Trim(settings.collectionName)
    /\ ToLowerCase(startColls[k]) # ToLowerCase(settings.collectionName)

BatchLevelError ==
  \/ settings.variables = <<>>
  \/ ~settings.createNewCollection /\ NoCollectionMatches

\* C9: batch-level errors abort before any write.  With an empty batch, or
\* with createNewCollection off and no collection of the name, the run
\* changes neither the variables nor the collections, posts no SUCCESS and
\* ends with exactly one ERROR.
C9_BatchLevelAbort ==
  BatchLevelError =>
    /\ figmaVars = startVars
    /\ collections = startColls
    /\ \A k \in 1..Len(posted) : posted[k] # "SUCCESS"
    /\ pc \in {"idle", "done"}
    /\ pc = "done" => Occurrences(posted, "ERROR") = 1

\* a non-empty batch whose collection could not be obtained
C9_Witness ==
  /\ pc = "done"
  /\ settings.variables # <<>>
  /\ posted = <<"LOADING", "ERROR">>

\* C1: with overwriteExisting off, every token whose full name is the full
\* name of an entry of the target collection at the start of the run is
\* counted in skipped, and that entry keeps its type, value and
\* description through all passes (stated for runs without host exception).
C1_SkipLeavesEntry ==
  (~settings.overwriteExisting /\ thrown = 0) =>
    /\ Pass1Over => skippedCount = Cardinality(MatchedTokens)
    /\ \A id \in StartTargetEntries :
         startVars[id].name \in BatchNames => figmaVars[id] = startVars[id]

\* the store state the idempotence property compares: the live entries
\* with full name, collection, type and value or alias target
LiveState(st) ==
  {[name |-> st[id].name, coll |-> st[id].coll, type |-> st[id].type,
    val |-> st[id].val] : id \in {k \in 1..Len(st) : ~st[k].removed}}

\* C2: idempotence.  A second run with the same tokens and overwriteExisting
\* on (existing collection, no host exception) creates no variable and
\* leaves the store state of the first run.
C2_Idempotent ==
  (/\ run >= 2
   /\ SummaryPosted
   /\ settings.overwriteExisting
   /\ ~settings.createNewCollection
   /\ thrown = 0) =>
    /\ Len(figmaVars) = Len(startVars)
    /\ LiveState(figmaVars) = LiveState(startVars)

\* the live entries of the target collection with the full name of a token
EntriesOf(st, tok) ==
  {id \in 1..Len(st) : /\ ~st[id].removed
                        /\ st[id].coll = collection
                        /\ st[id].name = FullName(tok)}

\* token p aliases, with a fallback, the full name of the later token q,
\* and no entry of that full name existed when the run started
ForwardReference(p, q) ==
  /\ p < q
  /\ settings.variables[p].value.shape = "aliasfb"
  /\ settings.variables[p].value.ref = FullName(settings.variables[q])
  /\ FullName(settings.variables[p]) # FullName(settings.variables[q])
  /\ \A id \in 1..Len(startVars) :
       startVars[id].name # FullName(settings.variables[q])
  /\ p \notin SkippedTokens

\* C3: forward reference.  When token A aliases the later token B and no
\* entry named B exists at the start of the run, pass 1 leaves A's entry with
\* the fallback scalar, and after pass 2 A's entry holds a VARIABLE_ALIAS
\* whose target is the entry created for B in this run (stated for runs
\* without host exception).
C3_ForwardReference ==
  (pc = "pass3" /\ removedLog = <<>> /\ thrown = 0) =>
    \A p, q \in 1..NumTokens :
      ForwardReference(p, q) =>
        /\ \E ida \in EntriesOf(afterPass1, settings.variables[p]) :
             /\ afterPass1[ida].val.k \in {"str", "num"}
             /\ afterPass1[ida].val.v.s = settings.variables[p].value.s
        /\ \E ida \in EntriesOf(figmaVars, settings.variables[p]) :
             /\ figmaVars[ida].val.k = "alias"
             /\ figmaVars[ida].val.id > Len(startVars)
             /\ figmaVars[ida].val.id \in EntriesOf(figmaVars, settings.variables[q])

HoldsValueOf(st, id, tok) ==
  LET type == IF tok.type = "" THEN DetectVariableType(tok.value) ELSE tok.type
  IN /\ st[id].type = ConvertToFigmaVariableType(type)
     /\ IF tok.value.shape = "plain"
        THEN st[id].val = ParseVariableValue(type, tok.value)
        ELSE \/ st[id].val.k = "alias"
             \/ st[id].val = ParseFallbackValue(tok.value.s, type)

\* C10: duplicate full names.  When several tokens of the batch have the
\* same full name and are not skipped, at the summary the entry of that
\* name holds the value of the last of them (stated for runs without host
\* exception).
C10_LastWins ==
  (SummaryPosted /\ thrown = 0) =>
    \A p, q \in 1..NumTokens :
      (/\ p < q
       /\ FullName(settings.variables[p]) = FullName(settings.variables[q])
       /\ \A r \in (q + 1)..NumTokens :
            FullName(settings.variables[r]) # FullName(settings.variables[q])
       /\ q \notin SkippedTokens) =>
        \E id \in EntriesOf(figmaVars, settings.variables[q]) :
          HoldsValueOf(figmaVars, id, settings.variables[q])

\* C11: alias-target lookup is an identity comparison.  Every entry that
\* holds a VARIABLE_ALIAS was given it for a token of its full name whose
\* alias target path is the full name of the referenced entry.
C11_AliasTargetIdentity ==
  \A id \in 1..Len(figmaVars) :
    figmaVars[id].val.k = "alias" =>
      \E k \in 1..NumTokens :
        /\ FullName(settings.variables[k]) = figmaVars[id].name
        /\ IsAlias(settings.variables[k].value)
        /\ figmaVars[figmaVars[id].val.id].name = settings.variables[k].value.ref

\* the token written by the step that leaves the current state, if any:
\* pass 1 writes a token that is not skipped, pass 2 an alias-shaped one
WritesToken ==
  \/ /\ pc = "pass1"
     /\ ~SkipExisting(FullName(variables[i]), existingVariableMap,
                      settings.overwriteExisting)
  \/ pc = "pass2" /\ IsAlias(variables[i].value)

\* C12: type mismatch is delete-then-recreate.  When a write of a run
\* without host exception meets a live entry of the token's full name in the target
\* collection whose type differs from the token's, the step removes that
\* entry and leaves a new live entry of the name with the token's type
\* holding a value.
C12_TypeMismatchRecreate ==
  [][(WritesToken /\ thrown' = 0) =>
       LET tok == variables'[i]
           figmaType == ConvertToFigmaVariableType(tok.type)
       IN \A id \in EntriesOf(figmaVars, tok) :
            figmaVars[id].type # figmaType =>
              /\ figmaVars'[id].removed
              /\ \E n \in (Len(figmaVars) + 1)..Len(figmaVars') :
                   /\ ~figmaVars'[n].removed
                   /\ figmaVars'[n].name = FullName(tok)
                   /\ figmaVars'[n].coll = collection
                   /\ figmaVars'[n].type = figmaType
                   /\ figmaVars'[n].val # DefaultValue]_vars

\* ------------------------------------------------- notionTransform.ts
\* Strings are sequences of one-character strings.  JavaScript values are
\* tagged records: a string, a number, null/undefined, an {r,g,b,a} object,
\* and strings of the rgb()/rgba() and hsl()/hsla() notations, which carry
\* the numbers their text denotes (channels as integers, hsl percentages as
\* integers, alpha in thousandths, -1 when the alpha part is absent).
Str(s) == [t |-> "str", s |-> s]
Num(n) == [t |-> "num", n |-> n]
Undefined == [t |-> "undefined"]
EmptyString == Str(<<>>)

\* JavaScript truthiness, as used by `||`, `!value` and `if (x)`
Truthy(v) ==
  CASE v.t = "str" -> v.s # <<>>
    [] v.t = "num" -> v.n # 0
    [] v.t = "bool" -> v.b
    [] v.t = "undefined" -> FALSE
    [] OTHER -> TRUE

\* a || b
OrElse(a, b) == IF Truthy(a) THEN a ELSE b

RECURSIVE TrimStart(_)
TrimStart(s) ==
  IF s # <<>> /\ Head(s) = " " THEN TrimStart(Tail(s)) ELSE s

RECURSIVE TrimEnd(_)
TrimEnd(s) ==
  IF s # <<>> /\ s[Len(s)] = " " THEN TrimEnd(SubSeq(s, 1, Len(s) - 1)) ELSE s

\* String.prototype.trim
TrimText(s) == TrimEnd(TrimStart(s))

\* sanitizeName(n) == n.trim(); a value that is not a string has no trim
SanitizeNameThrows(v) == v.t # "str"
SanitizeName(v) == TrimText(v.s)

PathSeparatorsSlashOnly == {"/"}

PathSeparators == {"/", ":", ">"}

RECURSIVE DropSeparators(_)
DropSeparators(s) ==
  IF s # <<>> /\ Head(s) \in PathSeparators THEN DropSeparators(Tail(s)) ELSE s

\* p.split(/[\/:>]+/): the pieces between runs of separators
RECURSIVE SplitPath(_, _)
SplitPath(s, cur) ==
  IF s = <<>> THEN <<cur>>
  ELSE IF Head(s) \in PathSeparators
       THEN <<cur>> \o SplitPath(DropSeparators(s), <<>>)
       ELSE SplitPath(Tail(s), Append(cur, Head(s)))

RECURSIVE JoinSlash(_)
JoinSlash(segs) ==
  IF segs = <<>> THEN <<>>
  ELSE IF Len(segs) = 1 THEN segs[1]
  ELSE segs[1] \o <<"/">> \o JoinSlash(Tail(segs))

\* sanitizePath(p): split, trim every piece, drop the empty ones, join
SanitizePathThrows(v) == v.t # "str"
SanitizePath(v) ==
  LET pieces == SplitPath(v.s, <<>>)
      trimmed == [k \in 1..Len(pieces) |-> TrimText(pieces[k])]
  IN JoinSlash(SelectSeq(trimmed, LAMBDA x : x # <<>>))

\* a Notion property object; segs are the plain_text of the items of a
\* title or rich_text array, relation the ids of a relation array
Prop(type, segs, number, name, relation) ==
  [type |-> type, segs |-> segs, number |-> number, name |-> name,
   relation |-> relation]
NoProp == Prop("", <<>>, 0, <<>>, <<>>)
TitleProp(segs) == Prop("title", segs, 0, <<>>, <<>>)
RichTextProp(segs) == Prop("rich_text", segs, 0, <<>>, <<>>)
NumberProp(n) == Prop("number", <<>>, n, <<>>, <<>>)
SelectProp(name) == Prop("select", <<>>, 0, name, <<>>)
RelationProp(ids) == Prop("relation", <<>>, 0, <<>>, ids)

\* extractPlain(arr) == (Array.isArray(arr) && arr[0]?.plain_text) || ''
ExtractPlain(arr) ==
  IF arr # <<>> /\ arr[1] # <<>> THEN Str(arr[1]) ELSE EmptyString

\* extractFromProperty(props, key) for the property kinds in use
ExtractFromProperty(props, key) ==
  IF key = "" \/ key \notin DOMAIN props THEN EmptyString
  ELSE LET p == props[key]
       IN CASE p.type = "title" -> ExtractPlain(p.segs)
            [] p.type = "rich_text" -> ExtractPlain(p.segs)
            [] p.type = "number" -> Num(p.number)
            [] p.type = "select" -> Str(p.name)
            [] OTHER -> EmptyString

HexDigitChars ==
  <<"0", "1", "2", "3", "4", "5", "6", "7", "8", "9",
    "a", "b", "c", "d", "e", "f">>
HexDigits == Range(HexDigitChars) \cup {"A", "B", "C", "D", "E", "F"}
IsHexText(s) == \A k \in 1..Len(s) : s[k] \in HexDigits

\* toHex(n) for the quotient num/den: Math.round, clamp to 0..255, two
\* lower-case hex digits
ToHex(num, den) ==
  LET rounded == (2 * num + den) \div (2 * den)
      byte == IF rounded < 0 THEN 0 ELSE IF rounded > 255 THEN 255 ELSE rounded
  IN <<HexDigitChars[(byte \div 16) + 1], HexDigitChars[(byte % 16) + 1]>>

\* the alpha suffix `${a < 1 ? toHex(a * 255) : ''}`, a in thousandths
AlphaSuffix(a) == IF a < 1000 THEN ToHex(a * 255, 1000) ELSE <<>>

\* hslToRgb(h, s, l) for hues that are multiples of 60; s and l in percent,
\* the channels in units of 1/10000 of 255
HslToRgb(h, sp, lp) ==
  LET d == 2 * lp - 100
      c == (100 - (IF d < 0 THEN -d ELSE d)) * sp
      x == IF (h \div 60) % 2 = 1 THEN c ELSE 0
      m == 100 * lp - c \div 2
      rgb == IF 0 <= h /\ h < 60 THEN <<c, x, 0>>
             ELSE IF 60 <= h /\ h < 120 THEN <<x, c, 0>>
             ELSE IF 120 <= h /\ h < 180 THEN <<0, c, x>>
             ELSE IF 180 <= h /\ h < 240 THEN <<0, x, c>>
             ELSE IF 240 <= h /\ h < 300 THEN <<x, 0, c>>
             ELSE <<c, 0, x>>
  IN [r |-> (rgb[1] + m) * 255, g |-> (rgb[2] + m) * 255, b |-> (rgb[3] + m) * 255]

\* normalizeColor(val)
NormalizeColor(val) ==
  CASE val.t = "undefined" -> EmptyString
    [] val.t = "str" ->
         LET s == TrimText(val.s)
         IN IF s # <<>> /\ Head(s) = "#" /\ Len(s) \in {7, 9} /\ IsHexText(Tail(s))
            THEN Str(s)
            ELSE IF Len(s) \in {6, 8} /\ IsHexText(s)
            THEN Str(<<"#">> \o s)
            ELSE IF s # <<>> /\ Head(s) = "#" /\ Len(s) \in {4, 5} /\ IsHexText(Tail(s))
            THEN Str(<<"#", s[2], s[2], s[3], s[3], s[4], s[4]>>
                     \o (IF Len(s) = 5 THEN <<s[5], s[5]>> ELSE <<>>))
            ELSE Str(s)
    [] val.t = "rgbstr" ->
         LET a == IF val.a = -1 THEN 1000 ELSE val.a
         IN Str(<<"#">> \o ToHex(val.r, 1) \o ToHex(val.g, 1) \o ToHex(val.b, 1)
                \o AlphaSuffix(a))
    [] val.t = "hslstr" ->
         LET a == IF val.a = -1 THEN 1000
                  ELSE IF val.a > 1000 THEN 1000 ELSE val.a
             c == HslToRgb(val.h, val.sp, val.lp)
         IN Str(<<"#">> \o ToHex(c.r, 10000) \o ToHex(c.g, 10000)
                \o ToHex(c.b, 10000) \o AlphaSuffix(a))
    [] val.t = "obj" ->
         Str(<<"#">> \o ToHex(val.r * 255, val.den) \o ToHex(val.g * 255, val.den)
             \o ToHex(val.b * 255, val.den)
             \o (IF val.a # -1 /\ val.a < val.den
                 THEN ToHex(val.a * 255, val.den) ELSE <<>>))
    [] OTHER -> val

\* the field names of getNotionFieldName with no mappings given
NameKey == "Name"
ValuePrimaryKey == "ValueRollup"
ValueFallbackKey == "Value"
TypeKey == "Type"
GroupKey == "Group"
DescKey == "Description"

Untitled == Str(<<"U", "n", "t", "i", "t", "l", "e", "d">>)

\* a Notion page object; typeof null/undefined pages is modelled by Undefined
Page(id, name, group, rollup, value, type) ==
  [t |-> "page", id |-> id,
   properties |-> [Name |-> name, Group |-> group, ValueRollup |-> rollup,
                   Value |-> value, Type |-> type]]

\* pageObj?.properties || {}
PropertiesOf(pageObj) ==
  IF pageObj.t = "page" THEN pageObj.properties ELSE [none |-> NoProp]

ReadValueFromPageNameFirst(pageObj) ==
  OrElse(ExtractFromProperty(PropertiesOf(pageObj), "Name"),
         ExtractFromProperty(PropertiesOf(pageObj), "Value"))

\* readValueFromPage: Value, ValueRollup, Hex, Color, Name, first truthy
ReadValueFromPage(pageObj) ==
  OrElse(OrElse(OrElse(OrElse(ExtractFromProperty(PropertiesOf(pageObj), "Value"),
                              ExtractFromProperty(PropertiesOf(pageObj), "ValueRollup")),
                       ExtractFromProperty(PropertiesOf(pageObj), "Hex")),
                ExtractFromProperty(PropertiesOf(pageObj), "Color")),
         ExtractFromProperty(PropertiesOf(pageObj), "Name"))

\* /^\{[^}]+\}$/.test(value) on a string value
IsAliasText(v) ==
  /\ v.t = "str"
  /\ Len(v.s) >= 3
  /\ v.s[1] = "{"
  /\ \A k \in 2..Len(v.s) : (v.s[k] = "}") <=> (k = Len(v.s))

\* decimal digits of a natural number, for template literals
RECURSIVE NumberText(_)
NumberText(n) ==
  IF n < 10 THEN <<HexDigitChars[n + 1]>>
  ELSE NumberText(n \div 10) \o <<HexDigitChars[(n % 10) + 1]>>

\* `${v}` for a string or a number
TemplateText(v) == IF v.t = "str" THEN v.s ELSE NumberText(v.n)

UpperCaseChar(c) ==
  CASE c = "a" -> "A" [] c = "b" -> "B" [] c = "c" -> "C" [] c = "d" -> "D"
    [] c = "e" -> "E" [] c = "f" -> "F" [] c = "g" -> "G" [] c = "i" -> "I"
    [] c = "l" -> "L" [] c = "n" -> "N" [] c = "o" -> "O" [] c = "r" -> "R"
    [] c = "s" -> "S" [] c = "t" -> "T" [] c = "u" -> "U" [] OTHER -> c

\* String(x).toUpperCase()
ToUpperCaseText(v) ==
  LET s == TemplateText(v) IN [k \in 1..Len(s) |-> UpperCaseChar(s[k])]

\* `${group}/${name}` when group is not empty, else name
JoinGroupName(group, name) ==
  IF group # <<>> THEN group \o <<"/">> \o name ELSE name

\* a call of fetchNotionPage that rejects
Throw == [t |-> "throw"]

\* pageCache.get(id), then fetchNotionPage and pageCache.set when the
\* cached value is falsy.  outcome is what this call of fetchNotionPage
\* does: Throw, or the value it resolves to.
CachedFetch(cache, log, id, outcome) ==
  LET cached == IF id \in DOMAIN cache THEN cache[id] ELSE Undefined
  IN IF Truthy(cached)
     THEN [related |-> cached, cache |-> cache, log |-> log, threw |-> FALSE]
     ELSE IF outcome.t = "throw"
     THEN [related |-> Undefined, cache |-> cache, log |-> Append(log, id),
           threw |-> TRUE]
     ELSE [related |-> outcome,
           cache |-> [k \in DOMAIN cache \cup {id} |->
                        IF k = id THEN outcome ELSE cache[k]],
           log |-> Append(log, id), threw |-> FALSE]

\* relatedName / relatedGroup / aliasTarget of lines 309-314 and 338-341;
\* threw when a name or group that is not a string reaches trim or split
RelatedTarget(related) ==
  LET Target(n, g) ==
        IF SanitizeNameThrows(n) \/ SanitizePathThrows(g)
        THEN [threw |-> TRUE, name |-> <<>>, path |-> <<>>]
        ELSE [threw |-> FALSE, name |-> SanitizeName(n),
              path |-> JoinGroupName(SanitizePath(g), SanitizeName(n))]
  IN Target(OrElse(ExtractFromProperty(PropertiesOf(related), NameKey), EmptyString),
            OrElse(ExtractFromProperty(PropertiesOf(related), GroupKey), EmptyString))

\* lines 293-322: the value is alias text `{...}`
RollupAlias(value, firstRelId, cache, log, o1) ==
  LET inner == SubSeq(value.s, 2, Len(value.s) - 1)
      bare == Str(<<"{">> \o inner \o <<"}">>)
      Resolved(f, rt, fallbackHex) ==
        IF f.threw \/ rt.threw
        THEN [value |-> bare, isAlias |-> TRUE, cache |-> f.cache, log |-> f.log]
        ELSE [value |-> IF Truthy(fallbackHex)
                        THEN Str(<<"{">> \o (IF rt.name # <<>> THEN rt.path ELSE inner)
                                 \o <<"}", "|", "|">> \o TemplateText(fallbackHex))
                        ELSE Str(<<"{">> \o (IF rt.name # <<>> THEN rt.path ELSE inner)
                                 \o <<"}">>),
              isAlias |-> TRUE, cache |-> f.cache, log |-> f.log]
      Fetched(f) ==
        Resolved(f, RelatedTarget(f.related),
                 NormalizeColor(ReadValueFromPage(f.related)))
  IN IF firstRelId = 0
     THEN [value |-> bare, isAlias |-> TRUE, cache |-> cache, log |-> log]
     ELSE Fetched(CachedFetch(cache, log, firstRelId, o1))

\* lines 324-360: the value is empty and the Value field is a relation
RelationValue(value, firstRelId, names, cache, log, o1, o2) ==
  LET known == IF firstRelId \in DOMAIN names THEN names[firstRelId] ELSE <<>>
      Direct(f2) ==
        IF f2.threw
        THEN [value |-> value, isAlias |-> FALSE, cache |-> f2.cache, log |-> f2.log]
        ELSE [value |-> ReadValueFromPage(f2.related), isAlias |-> FALSE,
              cache |-> f2.cache, log |-> f2.log]
      Resolved(f1, rt) ==
        IF f1.threw \/ rt.threw
        THEN [value |-> value, isAlias |-> FALSE, cache |-> f1.cache, log |-> f1.log]
        ELSE IF rt.path # <<>>
        THEN [value |-> Str(<<"{">> \o rt.path \o <<"}">>), isAlias |-> TRUE,
              cache |-> f1.cache, log |-> f1.log]
        ELSE Direct(CachedFetch(f1.cache, f1.log, firstRelId, o2))
      Fetched(f1) == Resolved(f1, RelatedTarget(f1.related))
  IN IF known # <<>>
     THEN [value |-> Str(<<"{">> \o known \o <<"}">>), isAlias |-> TRUE,
           cache |-> cache, log |-> log]
     ELSE Fetched(CachedFetch(cache, log, firstRelId, o1))

\* the body of the main loop for one page, lines 283-391.  o1 and o2 are
\* the outcomes of the first and second fetchNotionPage call it may make.
\* Result: [item, cache, log, threw]; threw is a TypeError outside the
\* try blocks, which rejects the whole transform.
TransformPage(page, names, cache, log, o1, o2) ==
  LET props == page.properties
      valueProp == props[ValueFallbackKey]
      Resolve(value0, firstRelId) ==
        IF IsAliasText(value0)
        THEN RollupAlias(value0, firstRelId, cache, log, o1)
        ELSE IF ~Truthy(value0) /\ firstRelId # 0
        THEN RelationValue(value0, firstRelId, names, cache, log, o1, o2)
        ELSE [value |-> value0, isAlias |-> FALSE, cache |-> cache, log |-> log]
      Item(rawName, r, typeV, groupV, description) ==
        IF SanitizeNameThrows(rawName)
        THEN [item |-> <<>>, cache |-> cache, log |-> log, threw |-> TRUE]
        ELSE IF SanitizePathThrows(groupV)
        THEN [item |-> <<>>, cache |-> r.cache, log |-> r.log, threw |-> TRUE]
        ELSE [item |-> [id |-> page.id, name |-> SanitizeName(rawName),
                        value |-> IF r.isAlias THEN r.value
                                  ELSE NormalizeColor(r.value),
                        type |-> ToUpperCaseText(typeV),
                        group |-> SanitizePath(groupV), description |-> description],
              cache |-> r.cache, log |-> r.log, threw |-> FALSE]
  IN Item(OrElse(ExtractFromProperty(props, NameKey), Untitled),
          Resolve(OrElse(ExtractFromProperty(props, ValuePrimaryKey),
                         ExtractFromProperty(props, ValueFallbackKey)),
                  IF valueProp.type = "relation" /\ valueProp.relation # <<>>
                  THEN valueProp.relation[1] ELSE 0),
          OrElse(ExtractFromProperty(props, TypeKey), EmptyString),
          OrElse(ExtractFromProperty(props, GroupKey), EmptyString),
          OrElse(ExtractFromProperty(props, DescKey), EmptyString))

\* ------------------------------------------- transformNotionResponse
MaxRecords == 2        \* records in one batch
ExternalId == 9        \* id of a page that is not in the batch

\* record k of a batch has id k; a relation points at record 1 or 2 or at
\* the external page
RelationTargets == {1, 2, ExternalId}

NameProps ==
  {TitleProp(<< <<"a">> >>), TitleProp(<< <<" ">> >>), NumberProp(5), NoProp}

\* the ValueRollup and Value fields: a plain text, alias text rolled up
\* from a relation, a relation with an empty roll-up, or alias text next to
\* an empty relation
PlainValueFields == [rollup |-> NoProp, value |-> RichTextProp(<< <<"1">> >>)]
ValueFields ==
  {PlainValueFields}
  \cup {[rollup |-> RichTextProp(<< <<"{", "x", "}">> >>),
         value |-> RelationProp(<<id>>)] : id \in RelationTargets}
  \cup {[rollup |-> NoProp, value |-> RelationProp(<<id>>)] : id \in RelationTargets}
  \cup {[rollup |-> RichTextProp(<< <<"{", "x", "}">> >>), value |-> RelationProp(<<>>)]}

\* the Group field of a record in a group, as typed in Notion, and the
\* names of such records
GroupProps ==
  {RichTextProp(<< <<" ", "g", ":", "h">> >>), SelectProp(<<"g">>)}
GroupedNameProps == {TitleProp(<< <<"a">> >>), TitleProp(<< <<" ", "b", " ">> >>)}

\* the pages record k can be: a page in a group with a plain value or a
\* relation to another record of the batch, and every name with the plain value, the name
\* "a" with every value, and a plain page whose Type field holds an
\* unknown label
RawPages(k) ==
  {Page(k, n, NoProp, PlainValueFields.rollup, PlainValueFields.value, NoProp) :
     n \in NameProps}
  \cup {Page(k, TitleProp(<< <<"a">> >>), NoProp, v.rollup, v.value, NoProp) :
          v \in {x \in ValueFields :
                   x.value.relation = <<>> \/ x.value.relation[1] # k}}
  \cup {Page(k, TitleProp(<< <<"a">> >>), NoProp, PlainValueFields.rollup,
              PlainValueFields.value, SelectProp(<<"f", "o", "o">>))}
  \cup {Page(k, n, g, NoProp, v, NoProp) :
          n \in GroupedNameProps, g \in GroupProps,
          v \in {PlainValueFields.value}
                 \cup {RelationProp(<<id>>) : id \in (1..MaxRecords) \ {k}}}

RECURSIVE RawBatchesOfLen(_)
RawBatchesOfLen(n) ==
  IF n = 0 THEN {<<>>}
  ELSE {Append(b, p) : b \in RawBatchesOfLen(n - 1), p \in RawPages(n)}

RawBatches == UNION {RawBatchesOfLen(n) : n \in 0..MaxRecords}

\* what one call of fetchNotionPage can do: reject, resolve to an empty
\* result, or resolve to a page (with a name, with a name, a group and a
\* short hex value, or without a name)
RelatedPages ==
  {Page(ExternalId, TitleProp(<< <<"b">> >>), NoProp, NoProp,
        RichTextProp(<< <<"1">> >>), NoProp),
   Page(ExternalId, TitleProp(<< <<"b", " ">> >>), RichTextProp(<< <<" ", "g", ":">> >>),
        NoProp, RichTextProp(<< <<"#", "a", "b", "c">> >>), NoProp),
   Page(ExternalId, NoProp, NoProp, NoProp, RichTextProp(<< <<"1">> >>), NoProp)}
FetchOutcomes == {Throw, Undefined} \cup RelatedPages

\* the handler is not running while the UI transforms a response
HandlerIdle ==
  /\ figmaVars = <<>>
  /\ collections = <<>>
  /\ settings = <<>>
  /\ pc = "off"
  /\ run = 0
  /\ variables = <<>>
  /\ collection = 0
  /\ existingVariableMap = {}
  /\ allFigmaVariables = <<>>
  /\ i = 0
  /\ importedCount = 0
  /\ skippedCount = 0
  /\ errorCount = 0
  /\ deletedCount = 0
  /\ importErrors = <<>>
  /\ varsToDelete = <<>>
  /\ posted = <<>>
  /\ thrown = 0
  /\ threwPass1 = {}
  /\ threwPass2 = {}
  /\ startVars = <<>>
  /\ startColls = <<>>
  /\ removedLog = <<>>
  /\ pass1Log = <<>>
  /\ afterPass1 = <<>>
  /\ listings = <<>>

notTransform == <<vars, callVars, fetchVars, uiVars>>
notCall == <<vars, transformVars, fetchVars, uiVars>>
notFetch == <<vars, transformVars, callVars, uiVars>>
notUi == <<vars, transformVars, callVars, fetchVars>>
allVars == <<vars, transformVars, callVars, fetchVars, uiVars>>

InitTransform ==
  /\ HandlerIdle
  /\ CallIdle
  /\ FetchIdle
  /\ UiIdle
  /\ raw \in RawBatches
  /\ tpc = "idle"
  /\ ti = 0
  /\ pageCache = <<>>
  /\ pageIdToVarName = <<>>
  /\ outVariables = <<>>
  /\ fetchLog = <<>>

\* vn0 joined from the group as typed, without sanitizePath
VarNameOfRawGroup(p) ==
  LET VarName(g0, n0) ==
        IF SanitizePathThrows(g0) \/ SanitizeNameThrows(n0)
        THEN [threw |-> TRUE, vn |-> <<>>]
        ELSE [threw |-> FALSE, vn |-> JoinGroupName(g0.s, SanitizeName(n0))]
  IN VarName(OrElse(ExtractFromProperty(p.properties, GroupKey), EmptyString),
             OrElse(ExtractFromProperty(p.properties, NameKey), Untitled))

\* vn0 of lines 271-274 for one page; threw when trim or split meets a
\* value that is not a string
VarNameOf(p) ==
  LET VarName(g0, n0) ==
        IF SanitizePathThrows(g0) \/ SanitizeNameThrows(n0)
        THEN [threw |-> TRUE, vn |-> <<>>]
        ELSE [threw |-> FALSE,
              vn |-> JoinGroupName(SanitizePath(g0), SanitizeName(n0))]
  IN VarName(OrElse(ExtractFromProperty(p.properties, GroupKey), EmptyString),
             OrElse(ExtractFromProperty(p.properties, NameKey), Untitled))

\* lines 255-279: the batch index pageIdToVarName is built over every
\* record before the main loop starts
TransformStart ==
  /\ tpc = "idle"
  /\ IF \E k \in 1..Len(raw) : VarNameOf(raw[k]).threw
     THEN /\ tpc' = "threw"
          /\ UNCHANGED <<ti, pageIdToVarName>>
     ELSE /\ tpc' = "loop"
          /\ ti' = 1
          /\ pageIdToVarName' = [k \in 1..Len(raw) |-> VarNameOf(raw[k]).vn]
  /\ UNCHANGED <<raw, pageCache, outVariables, fetchLog>>
  /\ UNCHANGED notTransform

\* one iteration of the main loop, lines 282-392; a second call of
\* fetchNotionPage happens only after a first one that resolved to a falsy
\* value, so only then is its outcome a separate choice
TransformRecord ==
  /\ tpc = "loop"
  /\ ti <= Len(raw)
  /\ \E o1 \in FetchOutcomes :
     \E o2 \in IF Truthy(o1) THEN {o1} ELSE FetchOutcomes :
     \E r \in {TransformPage(raw[ti], pageIdToVarName, pageCache, fetchLog, o1, o2)} :
          /\ pageCache' = r.cache
          /\ fetchLog' = r.log
          /\ IF r.threw
             THEN tpc' = "threw" /\ UNCHANGED <<ti, outVariables>>
             ELSE /\ outVariables' = Append(outVariables, r.item)
                  /\ ti' = ti + 1
                  /\ tpc' = "loop"
  /\ UNCHANGED <<raw, pageIdToVarName>>
  /\ UNCHANGED notTransform

\* line 395: return variables
TransformReturn ==
  /\ tpc = "loop"
  /\ ti > Len(raw)
  /\ tpc' = "returned"
  /\ UNCHANGED <<raw, ti, pageCache, pageIdToVarName, outVariables, fetchLog>>
  /\ UNCHANGED notTransform

NextTransform == TransformStart \/ TransformRecord \/ TransformReturn

SpecTransform == InitTransform /\ [][NextTransform]_allVars

\* ids of the records of the batch
BatchIds == {raw[k].id : k \in 1..Len(raw)}

\* the id the Value relation of a page points at, 0 when there is none
RelationIdOf(page) ==
  LET valueProp == page.properties[ValueFallbackKey]
  IN IF valueProp.type = "relation" /\ valueProp.relation # <<>>
     THEN valueProp.relation[1] ELSE 0

\* C13: during one run fetchNotionPage is called at most once per record
\* id, whatever the calls resolve to or throw.
C13_FetchOncePerId ==
  \A id \in Range(fetchLog) : Occurrences(fetchLog, id) <= 1

\* C14: same-batch references need no network call.  No id of a record of
\* the batch is ever passed to fetchNotionPage, and the token of a record
\* whose relation points at a record of the batch is the alias of the path
\* the batch index holds for that record.
C14_SameBatchNoFetch ==
  /\ \A id \in Range(fetchLog) : id \notin BatchIds
  /\ \A k \in 1..Len(outVariables) :
       RelationIdOf(raw[k]) \in BatchIds =>
         outVariables[k].value =
           Str(<<"{">> \o pageIdToVarName[RelationIdOf(raw[k])] \o <<"}">>)

\* C15: one token per record, in input order.  The transform never
\* rejects, the loop has emitted one token for each record it has passed,
\* token k carrying the id of record k, and it returns a token for every
\* record whatever the fetches did.
C15_OneTokenPerRecord ==
  /\ tpc # "threw"
  /\ tpc = "loop" => Len(outVariables) = ti - 1
  /\ tpc = "returned" => Len(outVariables) = Len(raw)
  /\ \A k \in 1..Len(outVariables) : outVariables[k].id = raw[k].id

\* the label of a token type as the VariableType the plugin switches on
TypeLabel(text) ==
  CASE text = <<"C", "O", "L", "O", "R">> -> "COLOR"
    [] text = <<"N", "U", "M", "B", "E", "R">> -> "NUMBER"
    [] text = <<"S", "T", "R", "I", "N", "G">> -> "STRING"
    [] text = <<"B", "O", "O", "L", "E", "A", "N">> -> "BOOLEAN"
    [] OTHER -> "UNKNOWN"

\* C16: input errors are never fatal.  A record whose name field is
\* missing or of an unexpected kind does not make the transform reject; the
\* token of a record with no readable name is called Untitled, and a token
\* whose type label is not a known type is written as a STRING variable.
C16_InputErrorsNotFatal ==
  /\ tpc # "threw"
  /\ \A k \in 1..Len(outVariables) :
       /\ raw[k].properties[NameKey].type \notin {"title", "rich_text"} =>
            outVariables[k].name = Untitled.s
       /\ TypeLabel(outVariables[k].type) \notin {"COLOR", "NUMBER", "BOOLEAN"} =>
            ConvertToFigmaVariableType(TypeLabel(outVariables[k].type)) = "STRING"

\* C17: every token the transform emits has a trimmed, non-empty name.
C17_NameTrimmedNonEmpty ==
  \A k \in 1..Len(outVariables) :
    /\ outVariables[k].name # <<>>
    /\ TrimText(outVariables[k].name) = outVariables[k].name

\* ---------------------------------------------------------------------
\* detectVariableType on JavaScript values (variableUtils.ts), strings as
\* sequences of characters
\* ---------------------------------------------------------------------
Bool(b) == [t |-> "bool", b |-> b]

DecimalDigits == {"0", "1", "2", "3", "4", "5", "6", "7", "8", "9"}

\* \s of the regular expressions and the white space trim() removes
WhiteSpace == {" "}

AllIn(txt, S) == \A k \in 1..Len(txt) : txt[k] \in S

StartsWith(txt, pre) ==
  Len(txt) >= Len(pre) /\ SubSeq(txt, 1, Len(pre)) = pre

\* the position of the first character at or after k that is not in S
RECURSIVE SkipSet(_, _, _)
SkipSet(txt, k, S) ==
  IF k <= Len(txt) /\ txt[k] \in S THEN SkipSet(txt, k + 1, S) ELSE k

CharAt(txt, k) == IF k >= 1 /\ k <= Len(txt) THEN txt[k] ELSE ""

\* hexPattern = /^#([A-Fa-f0-9]{6}|[A-Fa-f0-9]{8})$/
HexPattern(txt) ==
  Len(txt) \in {7, 9} /\ txt[1] = "#" /\ IsHexText(Tail(txt))

\* rgbPattern = /^rgba?\(\s*\d+\s*,\s*\d+\s*,\s*\d+\s*(,\s*[\d.]+)?\s*\)$/
\* one channel from position k: \s*\d+\s* ; 0 when there is no digit
RgbChannel(txt, k) ==
  LET d0 == SkipSet(txt, k, WhiteSpace)
      d1 == SkipSet(txt, d0, DecimalDigits)
  IN IF d1 > d0 THEN SkipSet(txt, d1, WhiteSpace) ELSE 0

RgbPattern(txt) ==
  LET open == IF StartsWith(txt, <<"r", "g", "b", "a", "(">>) THEN 6
              ELSE IF StartsWith(txt, <<"r", "g", "b", "(">>) THEN 5 ELSE 0
      c1 == IF open = 0 THEN 0 ELSE RgbChannel(txt, open)
      c2 == IF c1 # 0 /\ CharAt(txt, c1) = "," THEN RgbChannel(txt, c1 + 1) ELSE 0
      c3 == IF c2 # 0 /\ CharAt(txt, c2) = "," THEN RgbChannel(txt, c2 + 1) ELSE 0
      a0 == SkipSet(txt, c3 + 1, WhiteSpace)
      a1 == SkipSet(txt, a0, DecimalDigits \cup {"."})
      end == IF c3 # 0 /\ CharAt(txt, c3) = "," /\ a1 > a0
             THEN SkipSet(txt, a1, WhiteSpace) ELSE c3
  IN c3 # 0 /\ end = Len(txt) /\ txt[end] = ")"

StripSign(txt, signs) ==
  IF txt # <<>> /\ Head(txt) \in signs THEN Tail(txt) ELSE txt

\* StrDecimalLiteral without its sign: digits with at most one dot and at
\* least one digit, then an optional exponent
IsDecimalLiteral(txt) ==
  LET m == SkipSet(txt, 1, DecimalDigits \cup {"."})
      mant == SubSeq(txt, 1, m - 1)
      expo == SubSeq(txt, m, Len(txt))
      edig == StripSign(Tail(expo), {"+", "-"})
  IN /\ \E k \in 1..Len(mant) : mant[k] \in DecimalDigits
     /\ Cardinality({k \in 1..Len(mant) : mant[k] = "."}) <= 1
     /\ \/ expo = <<>>
        \/ /\ Head(expo) \in {"e", "E"}
           /\ edig # <<>> /\ AllIn(edig, DecimalDigits)

\* 0x, 0o and 0b literals
IsRadixLiteral(txt) ==
  /\ Len(txt) >= 3 /\ txt[1] = "0"
  /\ LET ds == SubSeq(txt, 3, Len(txt))
     IN \/ txt[2] \in {"x", "X"} /\ IsHexText(ds)
        \/ txt[2] \in {"o", "O"} /\ AllIn(ds, {"0", "1", "2", "3", "4", "5", "6", "7"})
        \/ txt[2] \in {"b", "B"} /\ AllIn(ds, {"0", "1"})

InfinityText == <<"I", "n", "f", "i", "n", "i", "t", "y">>

\* !isNaN(Number(value)): the string, white space trimmed, is empty or a
\* numeric literal
IsNotNaN(txt) ==
  LET t0 == TrimText(txt)
      u == StripSign(t0, {"+", "-"})
  IN \/ t0 = <<>>
     \/ u = InfinityText
     \/ IsDecimalLiteral(u)
     \/ IsRadixLiteral(t0)

LowerCaseChar(c) ==
  CASE c = "A" -> "a" [] c = "B" -> "b" [] c = "C" -> "c" [] c = "D" -> "d"
    [] c = "E" -> "e" [] c = "F" -> "f" [] c = "G" -> "g" [] c = "H" -> "h"
    [] c = "I" -> "i" [] c = "J" -> "j" [] c = "K" -> "k" [] c = "L" -> "l"
    [] c = "M" -> "m" [] c = "N" -> "n" [] c = "O" -> "o" [] c = "P" -> "p"
    [] c = "Q" -> "q" [] c = "R" -> "r" [] c = "S" -> "s" [] c = "T" -> "t"
    [] c = "U" -> "u" [] c = "V" -> "v" [] c = "W" -> "w" [] c = "X" -> "x"
    [] c = "Y" -> "y" [] c = "Z" -> "z"
    [] OTHER -> c

\* value.toLowerCase()
ToLowerCaseText(txt) == [k \in 1..Len(txt) |-> LowerCaseChar(txt[k])]

UnitSuffixes ==
  {<<"p", "x">>, <<"r", "e", "m">>, <<"e", "m">>, <<"%">>, <<"p", "t">>,
   <<"v", "h">>, <<"v", "w">>, <<"v", "m", "i", "n">>, <<"v", "m", "a", "x">>,
   <<"c", "h">>, <<"e", "x">>, <<"c", "m">>, <<"m", "m">>, <<"i", "n">>,
   <<"p", "c">>, <<"d", "e", "g">>, <<"r", "a", "d">>,
   <<"t", "u", "r", "n">>, <<"s">>, <<"m", "s">>}

\* numberWithUnitPattern = /^-?[\d.]+\s*(px|rem|...|s|ms)$/i
NumberWithUnitPattern(txt) ==
  LET n0 == IF CharAt(txt, 1) = "-" THEN 2 ELSE 1
      n1 == SkipSet(txt, n0, DecimalDigits \cup {"."})
      u0 == SkipSet(txt, n1, WhiteSpace)
  IN /\ n1 > n0
     /\ ToLowerCaseText(SubSeq(txt, u0, Len(txt))) \in UnitSuffixes

TrueText == <<"t", "r", "u", "e">>
FalseText == <<"f", "a", "l", "s", "e">>

\* detectVariableType(value) on a boolean, a number or a string
DetectVariableTypeOfValue(value) ==
  IF value.t = "bool" THEN "BOOLEAN"
  ELSE IF value.t = "num" THEN "NUMBER"
  ELSE IF value.t = "str"
  THEN IF HexPattern(value.s) \/ RgbPattern(value.s) THEN "COLOR"
       ELSE IF IsNotNaN(value.s) /\ TrimText(value.s) # <<>> THEN "NUMBER"
       ELSE IF NumberWithUnitPattern(TrimText(value.s)) THEN "NUMBER"
       ELSE IF ToLowerCaseText(value.s) \in {TrueText, FalseText} THEN "BOOLEAN"
       ELSE "STRING"
  ELSE "STRING"

\* ---------------------------------------------------------------------
\* The pure functions called on their own: one call of extractFromProperty,
\* detectVariableType or normalizeColor on an input of a bounded set
\* ---------------------------------------------------------------------
MaxSegments == 2       \* items of a title or rich_text array
MaxDigits == 6         \* length of the longest run of the digit 1

\* the strings 'rgb(..)'/'rgba(..)' and 'hsl(..)'/'hsla(..)' by the numbers
\* their text denotes, and an {r,g,b,a} object: its channels are the
\* quotients r/den .. a/den, in thousandths unless said otherwise
RgbString(r, g, b, a) == [t |-> "rgbstr", r |-> r, g |-> g, b |-> b, a |-> a]
HslString(h, sp, lp, a) == [t |-> "hslstr", h |-> h, sp |-> sp, lp |-> lp, a |-> a]
ColorObjectOver(r, g, b, a, den) ==
  [t |-> "obj", r |-> r, g |-> g, b |-> b, a |-> a, den |-> den]
ColorObject(r, g, b, a) == ColorObjectOver(r, g, b, a, 1000)

SegmentTexts == {<<>>, <<"a">>, <<"b", "c">>}

RECURSIVE SegmentLists(_)
SegmentLists(n) ==
  IF n = 0 THEN {<<>>}
  ELSE LET shorter == SegmentLists(n - 1)
       IN shorter \cup {Append(q, x) : q \in {y \in shorter : Len(y) = n - 1},
                                        x \in SegmentTexts}

PropertyInputs ==
  {[props |-> [Name |-> p], key |-> k] :
     p \in {TitleProp(q) : q \in SegmentLists(MaxSegments)}
           \cup {RichTextProp(q) : q \in SegmentLists(MaxSegments)}
           \cup {NumberProp(5), SelectProp(<<"a">>), NoProp},
     k \in {"Name", "Value"}}

DigitRun(n) == [k \in 1..n |-> "1"]

TextLeads == {<<>>, <<" ">>, <<"#">>, <<"-">>, <<"+">>}
TextBodies ==
  {DigitRun(n) : n \in 0..MaxDigits}
  \cup {<<"1", ".", "5">>, <<"1", ".", "2", ".", "3">>, <<".">>,
        <<"1", "e", "3">>, <<"0", "x", "1", "F">>, InfinityText,
        <<"F", "F", "5", "7", "3", "3">>,
        <<"f", "f", "5", "7", "3", "3", "a", "a">>,
        TrueText, <<"T", "r", "u", "e">>, FalseText,
        <<"h", "e", "l", "l", "o">>,
        <<"r", "g", "b", "(", "1", ",", "2", ",", "3", ")">>,
        <<"r", "g", "b", "a", "(", "1", ",", " ", "2", ",", "3", ",", ".", "5", ")">>,
        <<"r", "g", "b", "(", "1", ",", "2", ")">>}
TextGaps == {<<>>, <<" ">>}
TextSuffixes == {<<>>, <<"p", "x">>, <<"P", "X">>, <<"%">>, <<"m", "s">>, <<"q">>}

Texts ==
  {l \o b \o g \o u \o r :
     l \in TextLeads, b \in TextBodies, g \in TextGaps, u \in TextSuffixes,
     r \in TextGaps}

ValueInputs ==
  {Bool(TRUE), Bool(FALSE), Num(0), Num(5)} \cup {Str(x) : x \in Texts}

HexColorTexts ==
  {<<"#", "1", "1", "2", "2", "3", "3">>,
   <<"#", "1", "1", "2", "2", "3", "3", "8", "0">>,
   <<"#", "1", "1", "2", "2", "3", "3", "f", "f">>,
   <<"1", "1", "2", "2", "3", "3">>,
   <<"1", "1", "2", "2", "3", "3", "0", "0">>,
   <<"1", "1", "2", "2", "3", "3", "F", "F">>,
   <<"#", "1", "2", "3">>,
   <<"#", "1", "2", "3", "8">>,
   <<"#", "1", "2", "3", "f">>,
   <<" ", "#", "a", "b", "c", "d", "e", "f", " ">>}

Alphas == {-1, 0, 500, 1000}   \* thousandths; -1 when the input has none

ColorInputs ==
  {Undefined, Num(5), Str(<<"r", "e", "d">>)}
  \cup {Str(x) : x \in HexColorTexts}
  \cup {RgbString(r, g, b, a) : r \in {0, 255}, g \in {0, 128}, b \in {0, 255},
                               a \in Alphas}
  \cup {HslString(h, sp, lp, a) : h \in {0, 120, 240}, sp \in {0, 100},
                                 lp \in {0, 50}, a \in Alphas \cup {2000}}
  \cup {ColorObject(r, g, b, a) : r \in {0, 1000}, g \in {0, 500},
                                 b \in {0, 1000}, a \in Alphas}

\* ---------------------------------------------------------------------
\* parseColor (variableUtils.ts) and the round trip through normalizeColor
\* ---------------------------------------------------------------------
\* parseInt of one hex digit, and of two
HexValue(c) == (CHOOSE k \in 1..16 : HexDigitChars[k] = LowerCaseChar(c)) - 1
ParseIntHex(hi, lo) == 16 * HexValue(hi) + HexValue(lo)

\* a of the short form: h[3] ? parseInt(h[3] + h[3], 16) / 255 : 1
ShortAlphaOpaque(h) == 255

ShortAlpha(h) == IF Len(h) = 4 THEN ParseIntHex(h[4], h[4]) ELSE 255

\* parseColor(value); the channels of the result are quotients over den
ParseColor(value) ==
  CASE value.t = "obj" ->
         ColorObjectOver(value.r, value.g, value.b,
                         IF value.a = -1 \/ value.a = 0 THEN value.den ELSE value.a,
                         value.den)
    [] value.t = "str" ->
         LET h == IF value.s # <<>> THEN Tail(value.s) ELSE <<>>
         IN IF HexPattern(value.s)
            THEN ColorObjectOver(ParseIntHex(h[1], h[2]), ParseIntHex(h[3], h[4]),
                                 ParseIntHex(h[5], h[6]),
                                 IF Len(h) = 8 THEN ParseIntHex(h[7], h[8]) ELSE 255,
                                 255)
            ELSE IF CharAt(value.s, 1) = "#" /\ Len(h) \in {3, 4} /\ IsHexText(h)
            THEN ColorObjectOver(ParseIntHex(h[1], h[1]), ParseIntHex(h[2], h[2]),
                                 ParseIntHex(h[3], h[3]), ShortAlpha(h), 255)
            ELSE ColorObjectOver(0, 0, 0, 1, 1)
    [] value.t = "rgbstr" ->
         ColorObjectOver(value.r * 1000, value.g * 1000, value.b * 1000,
                         IF value.a = -1 THEN 255000
                         ELSE 255 * (IF value.a < 0 THEN 0
                                     ELSE IF value.a > 1000 THEN 1000 ELSE value.a),
                         255000)
    [] OTHER -> ColorObjectOver(0, 0, 0, 1, 1)

\* the '#'-hex strings handed to parseColor
ShortHexDigits == {"0", "8", "F", "a"}
HexBytes == {<<"0", "0">>, <<"0", "1">>, <<"7", "f">>, <<"8", "0">>,
             <<"A", "a">>, <<"f", "F">>}

HexInputs ==
  {<<"#", x, y, z>> : x \in ShortHexDigits, y \in ShortHexDigits, z \in ShortHexDigits}
  \cup {<<"#", x, y, z, w>> : x \in ShortHexDigits, y \in ShortHexDigits,
                              z \in ShortHexDigits, w \in ShortHexDigits}
  \cup {<<"#">> \o x \o y \o z : x \in HexBytes, y \in HexBytes, z \in HexBytes}
  \cup {<<"#">> \o x \o y \o z \o w : x \in HexBytes, y \in HexBytes,
                                     z \in HexBytes, w \in HexBytes}

ParseColorInputs ==
  {Str(x) : x \in HexInputs}
  \cup {Str(<<"r", "e", "d">>), Str(<<"#", "1", "2">>), Num(5), Bool(TRUE)}
  \cup {ColorObject(r, 500, 0, a) : r \in {0, 1000}, a \in Alphas}
  \cup {RgbString(r, 128, 0, a) : r \in {0, 255}, a \in Alphas}

CallParseColor ==
  /\ fn = ""
  /\ input.f = "parseColor"
  /\ fn' = input.f
  /\ result' = ParseColor(input.x)
  /\ UNCHANGED <<input, notCall>>

\* the colour parseColor returned is handed to normalizeColor
CallNormalizeColorOfParsed ==
  /\ fn = "parseColor"
  /\ fn' = "normalizeColor(parseColor)"
  /\ result' = NormalizeColor(result)
  /\ UNCHANGED <<input, notCall>>

\* ---------------------------------------------------------------------
\* sanitizePath called on its own, and again on its own output
\* ---------------------------------------------------------------------
MaxPathLen == 4        \* characters of a path handed to sanitizePath

PathChars == {"A", "B", " ", "/", ":", ">"}

RECURSIVE PathTexts(_)
PathTexts(n) ==
  IF n = 0 THEN {<<>>}
  ELSE LET shorter == PathTexts(n - 1)
       IN shorter \cup {Append(q, c) : q \in {y \in shorter : Len(y) = n - 1},
                                        c \in PathChars}

CallSanitizePath ==
  /\ fn = ""
  /\ input.f = "sanitizePath"
  /\ fn' = input.f
  /\ result' = [first |-> SanitizePath(input.x), again |-> <<>>, twice |-> FALSE]
  /\ UNCHANGED <<input, notCall>>

CallSanitizePathAgain ==
  /\ fn = "sanitizePath"
  /\ ~result.twice
  /\ result' = [result EXCEPT !.again = SanitizePath(Str(result.first)),
                              !.twice = TRUE]
  /\ UNCHANGED <<fn, input, notCall>>

\* ---------------------------------------------------------------------
\* a NUMBER token: normalizeColor in the transformer, then parseVariableValue
\* ---------------------------------------------------------------------
NaN == [t |-> "nan"]

\* a number, named by the decimal literal that denotes it
Float(lit) == [t |-> "float", lit |-> lit]

\* parseFloat(String(v)) on a string: leading white space is skipped and
\* the longest prefix that is a decimal literal is the number; NaN when
\* there is none
ParseFloatOfText(txt) ==
  LET t0 == TrimStart(txt)
      u == StripSign(t0, {"+", "-"})
      sign == SubSeq(t0, 1, Len(t0) - Len(u))
      ends == {k \in 1..Len(u) : IsDecimalLiteral(SubSeq(u, 1, k))}
  IN IF StartsWith(u, InfinityText) THEN Float(sign \o InfinityText)
     ELSE IF ends = {} THEN NaN
     ELSE Float(sign \o SubSeq(u, 1, CHOOSE k \in ends : \A m \in ends : m <= k))

\* parseVariableValue for VariableType.NUMBER, lines 436-441
ParseNumberValue(v) ==
  IF v.t = "num" THEN Float(NumberText(v.n)) ELSE ParseFloatOfText(v.s)

\* the numeric strings a NUMBER token carries
NumericTexts ==
  {DigitRun(n) : n \in 1..MaxDigits}
  \cup {<<"0">>, <<"1", ".", "5">>, <<"-", "1">>, <<"1", "e", "3">>,
        <<" ", "4", "2">>, <<"1", "2", "3", "4", "5", "6">>,
        <<"1", "2", "3", "4", "5", "6", "7", "8">>}

\* transformNotionResponse, lines 362-364: the value that is not an alias
\* goes through normalizeColor whatever the declared type
CallNormalizeNumberToken ==
  /\ fn = ""
  /\ input.f = "numberToken"
  /\ fn' = "transform"
  /\ result' = NormalizeColor(input.x)
  /\ UNCHANGED <<input, notCall>>

\* the reconcile step parses the value of the token it received
CallParseNumberToken ==
  /\ fn = "transform"
  /\ fn' = "parseVariableValue"
  /\ result' = ParseNumberValue(result)
  /\ UNCHANGED <<input, notCall>>

CallInputs ==
  {[f |-> "numberToken", x |-> Str(y)] : y \in NumericTexts}
  \cup {[f |-> "extractFromProperty", x |-> y] : y \in PropertyInputs}
  \cup {[f |-> "detectVariableType", x |-> y] : y \in ValueInputs}
  \cup {[f |-> "normalizeColor", x |-> y] : y \in ColorInputs}
  \cup {[f |-> "parseColor", x |-> y] : y \in ParseColorInputs}
  \cup {[f |-> "sanitizePath", x |-> Str(y)] : y \in PathTexts(MaxPathLen)}

InitCall ==
  /\ HandlerIdle
  /\ TransformIdle
  /\ FetchIdle
  /\ UiIdle
  /\ fn = ""
  /\ input \in CallInputs
  /\ result = <<>>

CallExtractFromProperty ==
  /\ fn = ""
  /\ input.f = "extractFromProperty"
  /\ fn' = input.f
  /\ result' = ExtractFromProperty(input.x.props, input.x.key)
  /\ UNCHANGED <<input, notCall>>

CallDetectVariableType ==
  /\ fn = ""
  /\ input.f = "detectVariableType"
  /\ fn' = input.f
  /\ result' = DetectVariableTypeOfValue(input.x)
  /\ UNCHANGED <<input, notCall>>

CallNormalizeColor ==
  /\ fn = ""
  /\ input.f = "normalizeColor"
  /\ fn' = input.f
  /\ result' = NormalizeColor(input.x)
  /\ UNCHANGED <<input, notCall>>

NextCall ==
  \/ CallExtractFromProperty
  \/ CallDetectVariableType
  \/ CallNormalizeColor
  \/ CallParseColor
  \/ CallNormalizeColorOfParsed
  \/ CallSanitizePath
  \/ CallSanitizePathAgain
  \/ CallNormalizeNumberToken
  \/ CallParseNumberToken

SpecCall == InitCall /\ [][NextCall]_allVars

RECURSIVE ConcatSegments(_)
ConcatSegments(segs) ==
  IF segs = <<>> THEN <<>> ELSE Head(segs) \o ConcatSegments(Tail(segs))

\* C18: extractFromProperty on a title or rich_text field returns the
\* plain_text of all its segments, concatenated in order with no separator,
\* for any number of segments.
C18_ConcatenatesAllSegments ==
  (/\ fn = "extractFromProperty"
   /\ input.x.key = "Name"
   /\ input.x.props.Name.type \in {"title", "rich_text"})
  => result = Str(ConcatSegments(input.x.props.Name.segs))

\* "a number immediately followed by a known unit suffix": the text splits
\* into a part that parses fully as a number and a unit
NumberThenUnit(txt) ==
  LET t0 == TrimText(txt)
  IN \E j \in 2..Len(t0) :
       LET n == SubSeq(t0, 1, j - 1)
       IN /\ IsNotNaN(n)
          /\ \A k \in 1..Len(n) : n[k] \notin WhiteSpace
          /\ ToLowerCaseText(SubSeq(t0, j, Len(t0))) \in UnitSuffixes

\* the rules of the type inference in their stated order
FirstMatchingRule(value) ==
  IF value.t = "bool" THEN "BOOLEAN"
  ELSE IF value.t = "num" THEN "NUMBER"
  ELSE IF HexPattern(value.s) \/ RgbPattern(value.s) THEN "COLOR"
  ELSE IF IsNotNaN(value.s) /\ TrimText(value.s) # <<>> THEN "NUMBER"
  ELSE IF NumberThenUnit(value.s) THEN "NUMBER"
  ELSE IF ToLowerCaseText(value.s) \in {TrueText, FalseText} THEN "BOOLEAN"
  ELSE "STRING"

\* C19: detectVariableType returns the result of the first matching rule
\* in the order boolean, number, colour pattern, numeric string, number
\* immediately followed by a unit, 'true'/'false', otherwise STRING; and
\* no string that starts with '#' is classified NUMBER.
C19_FirstMatchingRule ==
  fn = "detectVariableType" =>
    /\ result = FirstMatchingRule(input.x)
    /\ (input.x.t = "str" /\ CharAt(input.x.s, 1) = "#") => result # "NUMBER"

\* the colour inputs normalizeColor accepts, and whether their alpha is 1
HexBody(val) == StripSign(TrimText(val.s), {"#"})

AcceptedColor(val) ==
  \/ val.t \in {"rgbstr", "hslstr", "obj"}
  \/ /\ val.t = "str"
     /\ IsHexText(HexBody(val))
     /\ \/ Len(HexBody(val)) \in {6, 8}
        \/ Len(HexBody(val)) \in {3, 4} /\ CharAt(TrimText(val.s), 1) = "#"

ResolvedAlphaIsOne(val) ==
  IF val.t = "str"
  THEN LET h == ToLowerCaseText(HexBody(val))
       IN \/ Len(h) \in {3, 6}
          \/ Len(h) = 4 /\ h[4] = "f"
          \/ Len(h) = 8 /\ h[7] = "f" /\ h[8] = "f"
  ELSE val.a = -1 \/ val.a >= 1000

\* C20: for every colour input normalizeColor accepts, the emitted hex
\* string has 6 hex digits exactly when the resolved alpha of the input is
\* 1, and 8 hex digits otherwise.
C20_AlphaOmittedIffOne ==
  (fn = "normalizeColor" /\ AcceptedColor(input.x)) =>
    /\ result.t = "str"
    /\ CharAt(result.s, 1) = "#"
    /\ IsHexText(Tail(result.s))
    /\ Len(result.s) = IF ResolvedAlphaIsOne(input.x) THEN 7 ELSE 9

\* the four channel bytes a '#'-hex string denotes
ChannelBytes(txt) ==
  LET h == Tail(txt)
  IN IF Len(h) \in {3, 4}
     THEN <<ParseIntHex(h[1], h[1]), ParseIntHex(h[2], h[2]), ParseIntHex(h[3], h[3]),
            IF Len(h) = 4 THEN ParseIntHex(h[4], h[4]) ELSE 255>>
     ELSE <<ParseIntHex(h[1], h[2]), ParseIntHex(h[3], h[4]), ParseIntHex(h[5], h[6]),
            IF Len(h) = 8 THEN ParseIntHex(h[7], h[8]) ELSE 255>>

IsHashHex(v) ==
  /\ v.t = "str"
  /\ CharAt(v.s, 1) = "#"
  /\ Len(v.s) \in {4, 5, 7, 9}
  /\ IsHexText(Tail(v.s))

\* C21: for every valid 3-, 4-, 6- or 8-digit '#'-hex string h,
\* normalizeColor(parseColor(h)) is a hex string that denotes the same red,
\* green, blue and alpha bytes as h.
C21_HexRoundTrip ==
  (fn = "normalizeColor(parseColor)" /\ IsHashHex(input.x)) =>
    /\ IsHashHex(result)
    /\ Len(result.s) \in {7, 9}
    /\ ChannelBytes(result.s) = ChannelBytes(input.x.s)

\* a 4-digit input with a translucent alpha has made the round trip
C21_Witness ==
  /\ fn = "normalizeColor(parseColor)"
  /\ IsHashHex(input.x)
  /\ Len(input.x.s) = 5
  /\ ChannelBytes(input.x.s)[4] = 136
  /\ Len(result.s) = 9

\* the separators of a path, and a path with one character put in at k or
\* the character at k replaced
SeparatorChars == {"/", ":", ">"}
InsertAt(txt, k, c) == SubSeq(txt, 1, k - 1) \o <<c>> \o SubSeq(txt, k, Len(txt))
ReplaceAt(txt, k, c) == [txt EXCEPT ![k] = c]

\* the paths that differ from txt in one step of separator style, a
\* repeated separator or white space around a segment
SameUpToStyle(txt) ==
  {ReplaceAt(txt, k, c) : k \in {j \in 1..Len(txt) : txt[j] \in SeparatorChars},
                          c \in SeparatorChars}
  \cup {InsertAt(txt, k, c) : k \in {j \in 1..Len(txt) : txt[j] \in SeparatorChars},
                             c \in SeparatorChars \cup {" "}}
  \cup {InsertAt(txt, k + 1, " ") : k \in {j \in 1..Len(txt) : txt[j] \in SeparatorChars}}
  \cup {<<" ">> \o txt, txt \o <<" ">>}

\* no empty segment and no segment with leading or trailing white space
CleanPath(txt) ==
  /\ \A k \in 1..Len(txt) : txt[k] \notin {":", ">"}
  /\ txt # <<>> => txt[1] \notin {"/", " "} /\ txt[Len(txt)] \notin {"/", " "}
  /\ \A k \in 1..(Len(txt) - 1) :
       /\ ~(txt[k] = "/" /\ txt[k + 1] \in {"/", " "})
       /\ ~(txt[k] = " " /\ txt[k + 1] = "/")

\* C22: the output of sanitizePath has no empty segment and no segment with
\* leading or trailing white space; inputs that differ only in separator
\* style, repeated separators or surrounding white space normalize to the
\* same path; and sanitizePath is idempotent.
C22_SanitizePathNormalForm ==
  fn = "sanitizePath" =>
    /\ CleanPath(result.first)
    /\ \A y \in SameUpToStyle(input.x.s) : SanitizePath(Str(y)) = result.first
    /\ result.twice => result.again = result.first

\* 'A:>B' or 'A :B' was normalized to 'A/B' and normalized again
C22_Witness ==
  /\ fn = "sanitizePath"
  /\ result.twice
  /\ result.first = <<"A", "/", "B">>
  /\ \E k \in 1..Len(input.x.s) : input.x.s[k] = ":"
  /\ Len(input.x.s) = 4

\* C23: when the roll-up value of a record is alias text `{...}` and its
\* relation target is obtained with a non-empty name and a non-empty direct
\* value, the token's value is `{<sanitized group/name of the target>}||
\* <normalized direct value>`; when there is no relation id or no target is
\* obtained, the value is the bracketed alias text with no `||` suffix.
C23_RollupAliasFallback ==
  [][(/\ tpc = "loop"
      /\ Len(outVariables') = Len(outVariables) + 1
      /\ IsAliasText(ExtractFromProperty(raw[ti].properties, ValuePrimaryKey)))
     =>
     LET rollup == ExtractFromProperty(raw[ti].properties, ValuePrimaryKey)
         id == RelationIdOf(raw[ti])
         target == IF id # 0 /\ id \in DOMAIN pageCache'
                   THEN pageCache'[id] ELSE Undefined
         props == PropertiesOf(target)
         name == TrimText(ExtractFromProperty(props, NameKey).s)
         group == SanitizePath(ExtractFromProperty(props, GroupKey))
         direct == ExtractFromProperty(props, ValueFallbackKey)
         tok == outVariables'[ti]
     IN IF ~Truthy(target)
        THEN tok.value = rollup
        ELSE (name # <<>> /\ Truthy(direct)) =>
               tok.value = Str(<<"{">> \o JoinGroupName(group, name)
                               \o <<"}", "|", "|">> \o NormalizeColor(direct).s)
    ]_allVars

\* a token whose alias carries the canonical path g/b of its target and
\* the normalized fallback #aabbcc
C23_Witness ==
  \E k \in 1..Len(outVariables) :
    outVariables[k].value =
      Str(<<"{", "g", "/", "b", "}", "|", "|", "#", "a", "a", "b", "b", "c", "c">>)

\* ---------------------------------------------------------------------
\* fetchNotionData (notionProxy): the pagination loop
\* ---------------------------------------------------------------------
PageLimit == 3         \* stands for the limit of 1000 pages of the loop

\* proxyUrl arguments: empty, blank, not https, not a URL, https
ProxyUrls == {"", " ", "http", "invalid", "https"}
TrimUrl(u) == IF u = " " THEN "" ELSE u

\* assertHttps(url) throws
AssertHttpsThrows(u) == u # "https"

Cursors == {"null", "c1", "c2"}
ItemCounts == {0, 2}

\* the items of page n
ItemsOf(n, count) == [j \in 1..count |-> 10 * n + j]

\* what the proxy can answer to request n: fetch or json() rejects, a
\* response that is not ok, or a body whose results may not be an array,
\* whose has_more may be true, false or something else, with any cursor
Responses(n) ==
  {[ok |-> o, isArray |-> FALSE, results |-> <<>>, has_more |-> "false",
    next_cursor |-> "null"] : o \in {"reject", "notok"}}
  \cup {[ok |-> "ok", isArray |-> TRUE, results |-> ItemsOf(n, c), has_more |-> h,
         next_cursor |-> x] : c \in ItemCounts, h \in {"true", "false", "other"},
                              x \in Cursors}
  \cup {[ok |-> "ok", isArray |-> FALSE, results |-> <<>>, has_more |-> h,
         next_cursor |-> x] : h \in {"true", "false", "other"}, x \in Cursors}

\* hasMore = data.has_more === true
HasMoreTruthy(data) == data.has_more # "false"

HasMoreOf(data) == data.has_more = "true"

\* ...(startCursor ? { start_cursor: startCursor } : {})
StartCursorOfRequest(cursor) ==
  IF cursor \in {"undefined", "null", ""} THEN "absent" ELSE cursor

InitFetch ==
  /\ HandlerIdle
  /\ TransformIdle
  /\ CallIdle
  /\ UiIdle
  /\ proxyUrl \in ProxyUrls
  /\ fpc = "idle"
  /\ allResults = <<>>
  /\ hasMore = FALSE
  /\ startCursor = "undefined"
  /\ pageCount = 0
  /\ requests = <<>>
  /\ responses = <<>>
  /\ fetched = <<>>

\* lines 32-48: the checks of the proxy URL and the locals of the loop
FetchStart ==
  /\ fpc = "idle"
  /\ IF TrimUrl(proxyUrl) = "" \/ AssertHttpsThrows(TrimUrl(proxyUrl))
     THEN fpc' = "threw" /\ UNCHANGED hasMore
     ELSE fpc' = "loop" /\ hasMore' = TRUE
  /\ UNCHANGED <<proxyUrl, allResults, startCursor, pageCount, requests,
                 responses, fetched>>
  /\ UNCHANGED notFetch

\* lines 50-92: one iteration of the loop, one request and its response
FetchPage ==
  /\ fpc = "loop"
  /\ hasMore
  /\ pageCount < PageLimit
  /\ pageCount' = pageCount + 1
  /\ requests' = Append(requests, StartCursorOfRequest(startCursor))
  /\ \E data \in Responses(pageCount + 1) :
       /\ responses' = Append(responses, data)
       /\ IF data.ok # "ok"
          THEN /\ fpc' = "threw"
               /\ UNCHANGED <<allResults, hasMore, startCursor>>
          ELSE /\ fpc' = "loop"
               /\ allResults' = IF data.isArray THEN allResults \o data.results
                                ELSE allResults
               /\ hasMore' = HasMoreOf(data)
               /\ startCursor' = data.next_cursor
  /\ UNCHANGED <<proxyUrl, fetched>>
  /\ UNCHANGED notFetch

\* lines 94-100: the loop is left and the list is returned
FetchReturn ==
  /\ fpc = "loop"
  /\ ~hasMore \/ pageCount >= PageLimit
  /\ fpc' = "returned"
  /\ fetched' = [results |-> allResults, has_more |-> FALSE, next_cursor |-> "null"]
  /\ UNCHANGED <<proxyUrl, allResults, hasMore, startCursor, pageCount, requests,
                 responses>>
  /\ UNCHANGED notFetch

NextFetch == FetchStart \/ FetchPage \/ FetchReturn

\* the call is not suspended for ever: every await settles
SpecFetch == InitFetch /\ [][NextFetch]_allVars /\ WF_allVars(NextFetch)

RECURSIVE ResultsInPageOrder(_)
ResultsInPageOrder(resps) ==
  IF resps = <<>> THEN <<>>
  ELSE (IF Head(resps).isArray THEN Head(resps).results ELSE <<>>)
       \o ResultsInPageOrder(Tail(resps))

\* one request per response, each carrying the cursor of the response
\* before it, and no request after a response whose has_more is not true,
\* after a response that is not ok, or beyond the page limit
OnePageAtATime ==
  /\ Len(requests) = Len(responses)
  /\ Len(requests) <= PageLimit
  /\ requests # <<>> => requests[1] = "absent"
  /\ \A n \in 2..Len(requests) :
       /\ responses[n - 1].ok = "ok"
       /\ responses[n - 1].has_more = "true"
       /\ requests[n] = IF responses[n - 1].next_cursor = "null" THEN "absent"
                        ELSE responses[n - 1].next_cursor

\* the list is returned only after a response that ends the paging or at
\* the page limit, and it holds the results of all pages in page order
ReturnsWholeList ==
  fpc = "returned" =>
    /\ responses # <<>>
    /\ \A n \in 1..Len(responses) : responses[n].ok = "ok"
    /\ responses[Len(responses)].has_more # "true" \/ Len(responses) = PageLimit
    /\ fetched.results = ResultsInPageOrder(responses)
    /\ fetched.has_more = FALSE

\* C24: fetchNotionData terminates for every sequence of proxy responses;
\* it requests one page at a time with the previous next_cursor as
\* start_cursor, stops at the first response whose has_more is not true or
\* at the page limit, returns the results of all pages in page order with
\* has_more = false, and returns nothing after a response that is not ok.
C24_PaginationTerminates ==
  /\ [](OnePageAtATime /\ ReturnsWholeList)
  /\ []((fpc = "threw") => (fetched = <<>>))
  /\ <>(fpc \in {"returned", "threw"})

\* a list of three pages was returned at the page limit while the proxy
\* still announced more
C24_Witness ==
  /\ fpc = "returned"
  /\ Len(responses) = PageLimit
  /\ responses[PageLimit].has_more = "true"
  /\ requests[2] = "c1"
  /\ Len(fetched.results) >= 4

\* at most one live entry per full name in the target collection
LiveNamesUnique(st) ==
  \A a, b \in 1..Len(st) :
    (/\ ~st[a].removed /\ ~st[b].removed
     /\ st[a].coll = collection /\ st[b].coll = collection
     /\ st[a].name = st[b].name) => a = b

\* C25: name uniqueness is preserved.  If the target collection holds at
\* most one live entry per full name when a run starts, it holds at most
\* one live entry per full name when the run has posted its summary.
C25_NameUniqueness ==
  (SummaryPosted /\ LiveNamesUnique(startVars)) => LiveNamesUnique(figmaVars)


\* the entries the run removed: live when the run started or created by
\* the run, removed now
RemovedDuringRun(id) ==
  /\ figmaVars[id].removed
  /\ id <= Len(startVars) => ~startVars[id].removed

\* the entries the run wrote: created by the run, or holding another value
\* than when the run started
WrittenByRun(id) ==
  \/ id > Len(startVars)
  \/ startVars[id].val # figmaVars[id].val

\* C26: no dangling alias.  At the end of a run no live entry the run wrote
\* holds a VARIABLE_ALIAS of an entry that the same run removed, by the
\* pass-3 pruning or by the remove-and-recreate of a type mismatch.
C26_NoDanglingAlias ==
  SummaryPosted =>
    \A id \in 1..Len(figmaVars) :
      (/\ ~figmaVars[id].removed
       /\ WrittenByRun(id)
       /\ figmaVars[id].val.k = "alias") =>
        ~RemovedDuringRun(figmaVars[id].val.id)


\* ------------------------------------------- the import form and the
\* controller's message handler
MaxSubmits == 2     \* submits of the import form
MaxProgress == 1    \* PROGRESS messages of one run

\* what fetchNotionData and transformNotionResponse leave handleSubmit
\* with: a non-empty array, an empty one, or an exception
SubmitOutcomes == {"variables", "empty", "throw"}

\* handleSubmit up to its first await, lines 186-214.  The form is submitted
\* with the submit button, disabled while isLoading (line 454).
\* clearImportTimeout, setIsLoading(true), window.setTimeout(handleTimeout)
UiSubmit ==
  /\ UNCHANGED notUi
  /\ ~isLoading
  /\ Len(submits) < MaxSubmits
  /\ isLoading' = TRUE
  /\ timerCount' = timerCount + 1
  /\ importTimeoutRef' = timerCount + 1
  /\ timers' = (timers \ {importTimeoutRef}) \cup {timerCount + 1}
  /\ submits' = Append(submits, "fetching")
  /\ UNCHANGED <<toController, toUi, importRuns>>

\* handleSubmit after the awaits, lines 216-275: no variables or an
\* exception end it with the timer cleared and isLoading false; otherwise
\* the timer is set again and IMPORT_FROM_NOTION is posted
UiFetched ==
  /\ UNCHANGED notUi
  /\ \E k \in 1..Len(submits), outcome \in SubmitOutcomes :
       /\ submits[k] = "fetching"
       /\ submits' = [submits EXCEPT ![k] = "returned"]
       /\ IF outcome = "variables"
          THEN /\ timerCount' = timerCount + 1
               /\ importTimeoutRef' = timerCount + 1
               /\ timers' = (timers \ {importTimeoutRef}) \cup {timerCount + 1}
               /\ toController' = Append(toController, "IMPORT_FROM_NOTION")
               /\ UNCHANGED isLoading
          ELSE /\ timers' = timers \ {importTimeoutRef}
               /\ importTimeoutRef' = 0
               /\ isLoading' = FALSE
               /\ UNCHANGED <<timerCount, toController>>
  /\ UNCHANGED <<toUi, importRuns>>

\* handleTimeout, lines 54-58, when a pending timer fires
UiTimeout ==
  /\ UNCHANGED notUi
  /\ \E t \in timers :
       /\ timers' = timers \ {t}
       /\ isLoading' = FALSE
       /\ importTimeoutRef' = 0
  /\ UNCHANGED <<timerCount, submits, toController, toUi, importRuns>>

\* handleMessage, lines 90-146: PROGRESS resets the timer (resetTimeout),
\* SUCCESS and ERROR end the operation (handleOperationComplete)
UiOnMessage ==
  /\ UNCHANGED notUi
  /\ toUi # <<>>
  /\ toUi' = Tail(toUi)
  /\ IF Head(toUi) = "PROGRESS"
     THEN /\ timerCount' = timerCount + 1
          /\ importTimeoutRef' = timerCount + 1
          /\ timers' = (timers \ {importTimeoutRef}) \cup {timerCount + 1}
          /\ UNCHANGED isLoading
     ELSE /\ isLoading' = FALSE
          /\ timers' = timers \ {importTimeoutRef}
          /\ importTimeoutRef' = 0
          /\ UNCHANGED timerCount
  /\ UNCHANGED <<submits, toController, importRuns>>

\* figma.ui.onmessage for IMPORT_FROM_NOTION: saveAllData(msg.formData),
\* then handleImportFromNotion(msg.data); an exception of saveAllData is
\* answered with ERROR by the catch of the message handler
ControllerOnMessage ==
  /\ UNCHANGED notUi
  /\ toController # <<>>
  /\ toController' = Tail(toController)
  /\ \E saveThrows \in BOOLEAN :
       IF saveThrows
       THEN /\ toUi' = Append(toUi, "ERROR")
            /\ UNCHANGED importRuns
       ELSE /\ importRuns' = Append(importRuns, [state |-> "running", progress |-> 0])
            /\ UNCHANGED toUi
  /\ UNCHANGED <<isLoading, importTimeoutRef, timers, timerCount, submits>>

\* a run of handleImportFromNotion posts a PROGRESS message
RunProgress ==
  /\ UNCHANGED notUi
  /\ \E r \in 1..Len(importRuns) :
       /\ importRuns[r].state = "running"
       /\ importRuns[r].progress < MaxProgress
       /\ importRuns' = [importRuns EXCEPT ![r].progress = @ + 1]
       /\ toUi' = Append(toUi, "PROGRESS")
  /\ UNCHANGED <<isLoading, importTimeoutRef, timers, timerCount, submits,
                 toController>>

\* a run of handleImportFromNotion posts its SUCCESS or ERROR and returns
RunTerminal ==
  /\ UNCHANGED notUi
  /\ \E r \in 1..Len(importRuns), type \in {"SUCCESS", "ERROR"} :
       /\ importRuns[r].state = "running"
       /\ importRuns' = [importRuns EXCEPT ![r].state = "returned"]
       /\ toUi' = Append(toUi, type)
  /\ UNCHANGED <<isLoading, importTimeoutRef, timers, timerCount, submits,
                 toController>>

InitUi ==
  /\ HandlerIdle
  /\ TransformIdle
  /\ CallIdle
  /\ FetchIdle
  /\ UiIdle

NextUi ==
  \/ UiSubmit
  \/ UiFetched
  \/ UiTimeout
  \/ UiOnMessage
  \/ ControllerOnMessage
  \/ RunProgress
  \/ RunTerminal

SpecUi == InitUi /\ [][NextUi]_allVars

\* the runs of handleImportFromNotion that have not posted SUCCESS or ERROR
RunsInFlight == {r \in 1..Len(importRuns) : importRuns[r].state = "running"}

\* C27: at most one reconciliation run is in flight.  The controller never
\* starts a handleImportFromNotion while an earlier one has not yet posted
\* its SUCCESS or ERROR, whatever the order of submits, PROGRESS messages
\* and import timeouts.
C27_OneRunInFlight == Cardinality(RunsInFlight) <= 1


\* the positions of the SUCCESS and ERROR messages among those posted
TerminalMessages == {k \in 1..Len(posted) : posted[k] \in {"SUCCESS", "ERROR"}}

\* C28: every invocation of handleImportFromNotion posts exactly one
\* terminal message, SUCCESS or ERROR.  A run that has returned has posted
\* one and it is its last message, a run that has not returned has posted
\* none, and after the terminal message the run posts nothing more and
\* changes neither the variables nor the collections of the store.
C28_OneTerminalMessage ==
  /\ [](pc = "done" => /\ Cardinality(TerminalMessages) = 1
                        /\ Last(posted) \in {"SUCCESS", "ERROR"})
  /\ [](pc # "done" => TerminalMessages = {})
  /\ [][TerminalMessages # {} =>
          /\ figmaVars' = figmaVars
          /\ collections' = collections
          /\ posted' = posted \/ (run' = run + 1 /\ posted' = <<>>)]_vars

\* a run that wrote to the store while a host call threw, posted LOADING,
\* PROGRESS and then SUCCESS, and returned
C28_Witness ==
  /\ pc = "done"
  /\ posted = <<"LOADING", "PROGRESS", "SUCCESS">>
  /\ figmaVars # startVars
  /\ thrown = 1


\* C29: no self-alias.  No entry of the store holds a VARIABLE_ALIAS of
\* itself, in any state of any run.
C29_NoSelfAlias ==
  \A id \in 1..Len(figmaVars) :
    figmaVars[id].val.k = "alias" => figmaVars[id].val.id # id


\* the listing of the store taken when the run started
InitialListing == GetLocalVariables(startVars)

\* C30: the store is read only before pass 1.  Every listing of the store
\* is made before the pass-1 loop starts, and in passes 1 to 3 and at the
\* summary the working list is that initial listing followed by entries
\* that writes of this run returned, each the entry of a token's full name.
C30_StoreReadOnlyBeforePass1 ==
  /\ \A k \in 1..Len(listings) : listings[k] = "idle"
  /\ (pc \in {"pass1", "pass2", "pass3"} \/ SummaryPosted) =>
       /\ Len(listings) = 2
       /\ Len(allFigmaVariables) >= Len(InitialListing)
       /\ SubSeq(allFigmaVariables, 1, Len(InitialListing)) = InitialListing
       /\ \A k \in (Len(InitialListing) + 1)..Len(allFigmaVariables) :
            \E t \in 1..Len(variables) :
              figmaVars[allFigmaVariables[k]].name = FullName(variables[t])

\* a run over a store that held an entry has written through all passes
\* and returned: the store differs from the initial listing, the working
\* list has grown, and the store was listed twice, at the start
C30_Witness ==
  /\ SummaryPosted
  /\ InitialListing # <<>>
  /\ figmaVars # startVars
  /\ Len(allFigmaVariables) > Len(InitialListing)
  /\ \E k \in 1..Len(variables) : IsAlias(variables[k].value)
  /\ listings = <<"idle", "idle">>


\* C31: a NUMBER token whose raw value is a numeric string is stored with
\* the number that string denotes: the number parsed from the value after
\* the transformer's normalizeColor is the number parsed from the raw value.
C31_NumberSurvivesNormalization ==
  (fn = "parseVariableValue" /\ input.f = "numberToken") =>
    result = ParseFloatOfText(input.x.s)


\* fullName of handleImportFromNotion, lines 98-100, and variableName of
\* updateVariable, on the token as the transform emitted it
FullNameOfToken(variable) ==
  IF variable.group # <<>>
  THEN variable.group \o <<"/">> \o variable.name
  ELSE variable.name

\* the emitted tokens whose Value relation points at record r of the batch
\* and was resolved through the batch index
IndexAliases(r) ==
  {k \in 1..Len(outVariables) :
     /\ ~Truthy(OrElse(ExtractFromProperty(raw[k].properties, ValuePrimaryKey),
                       ExtractFromProperty(raw[k].properties, ValueFallbackKey)))
     /\ RelationIdOf(raw[k]) = r
     /\ pageIdToVarName[r] # <<>>}

\* C32: batch index consistency.  For every record that has emitted its
\* token, the path the batch index holds for the record's id is the full
\* name reconcile computes for that token, and an alias resolved through
\* the index is `{path}` with the full name of the target record's token.
C32_BatchIndexConsistency ==
  /\ \A k \in 1..Len(outVariables) :
       pageIdToVarName[outVariables[k].id] = FullNameOfToken(outVariables[k])
  /\ \A r \in 1..Len(outVariables) :
       \A k \in IndexAliases(r) :
         outVariables[k].value =
           Str(<<"{">> \o FullNameOfToken(outVariables[r]) \o <<"}">>)

\* a returned batch whose second record is in a group typed ' g:h', and
\* whose first record is an alias of it resolved through the batch index
C32_Witness ==
  /\ tpc = "returned"
  /\ Len(outVariables) = 2
  /\ outVariables[2].group = <<"g", "/", "h">>
  /\ outVariables[2].name = <<"b">>
  /\ 1 \in IndexAliases(2)
  /\ outVariables[1].value = Str(<<"{", "g", "/", "h", "/", "b", "}">>)

====
